---- MODULE Spec2Model ----
(***************************************************************************)
(* Para allowance wallet: the policy compiler (buildParaPolicy), the       *)
(* policy introspection helpers and the transaction evaluators             *)
(* (validateAgainstParaPolicy on the client, validateTransaction in the    *)
(* sign endpoint), in the variants the repository carries; the             *)
(* PermissionContext that stores the parent's policies; the create-wallet  *)
(* and sign-transaction endpoints with their policy stores.                *)
(*                                                                         *)
(* Optional values (a TypeScript `x?: T`) are sequences of length <= 1:    *)
(* <<>> is undefined, <<v>> is the value v.  Addresses are sequences of    *)
(* characters so that String.prototype.toLowerCase is computed.            *)
(***************************************************************************)
EXTENDS Integers, Sequences, FiniteSets, TLC

(***************************************************************************)
(* Bounds of the model                                                     *)
(***************************************************************************)
\* the largest USD amount of a transaction and of a limit
MaxUsd == 2
\* the largest number of permissions of a generated policy document
MaxPerms == 2
\* the largest value of the wall clock (Date.now())
MaxClock == 2
\* the largest number of merchants on the allowlist of a policy
MaxAllowlist == 1

None == <<>>
Some(v) == <<v>>
IsSome(o) == Len(o) > 0
Get(o) == o[1]

(***************************************************************************)
(* Strings                                                                 *)
(***************************************************************************)
\* String.prototype.toLowerCase on one character
LowerChar(c) ==
  CASE c = "A" -> "a"
    [] c = "B" -> "b"
    [] c = "C" -> "c"
    [] c = "D" -> "d"
    [] c = "E" -> "e"
    [] c = "F" -> "f"
    [] c = "X" -> "x"
    [] OTHER -> c

\* String.prototype.toLowerCase
toLowerCase(s) == [i \in DOMAIN s |-> LowerChar(s[i])]

\* Array.prototype.map(a => a.toLowerCase())
mapToLowerCase(list) == [i \in DOMAIN list |-> toLowerCase(list[i])]

\* Array.prototype.includes
includes(list, x) == \E i \in DOMAIN list : list[i] = x

\* JavaScript truthiness of an optional string: undefined and "" are falsy
Truthy(o) == IsSome(o) /\ Get(o) # <<>>

AddrLower == <<"0", "x", "a", "b">>
AddrMixed == <<"0", "x", "A", "b">>
AddrOther == <<"0", "x", "c", "d">>
\* a string that is not an address: no 0x prefix
AddrMalformed == <<"a", "b">>
Addresses == {AddrLower, AddrMixed, AddrOther}

HexDigits ==
  {"0", "1", "2", "3", "4", "5", "6", "7", "8", "9",
   "a", "b", "c", "d", "e", "f", "A", "B", "C", "D", "E", "F"}

\* /^0x[a-fA-F0-9]{40}$/ on the shortened addresses of the model
IsHexAddress(a) ==
  /\ Len(a) = Len(AddrLower)
  /\ a[1] = "0" /\ a[2] = "x"
  /\ \A i \in 3..Len(a) : a[i] \in HexDigits

\* JavaScript truthiness of an optional string value: undefined and '' are falsy
TruthyString(o) == IsSome(o) /\ Get(o) # ""

(***************************************************************************)
(* Program constants                                                       *)
(***************************************************************************)
BASE_CHAIN_ID == "8453"
ALL_ALLOWED_CHAINS == <<"8453", "1", "137", "42161", "10">>
ALL_CHAINS == <<"8453", "1", "137", "42161", "10">>
PARTNER_ID == "para-allowance-wallet"

TxTypes == {"TRANSFER", "SIGN_MESSAGE", "SMART_CONTRACT", "DEPLOY_CONTRACT"}

(***************************************************************************)
(* Policy document model: Policy -> Scope -> Permission -> Condition       *)
(***************************************************************************)
NumberRef(n) == [kind |-> "number", num |-> n, list |-> <<>>]
ArrayRef(l) == [kind |-> "array", num |-> 0, list |-> l]

Condition(res, cmp, ref) ==
  [type |-> "STATIC", resource |-> res, comparator |-> cmp, reference |-> ref]

Permission(eff, chain, ty, conds) ==
  [effect |-> eff, chainId |-> chain, type |-> ty, conditions |-> conds]

Scope(n, desc, req, perms) ==
  [name |-> n, description |-> desc, required |-> req, permissions |-> perms]

\* a description template literal: its fixed text and the values spliced into it
Description(text, usd, count) == [text |-> text, usd |-> usd, count |-> count]

Policy(partner, from, to, scps) ==
  [partnerId |-> partner, validFrom |-> from, validTo |-> to, scopes |-> scps]

\* the permissions of a document in the order the nested scope/permission loops visits them
RECURSIVE ConcatPermissions(_)
ConcatPermissions(scps) ==
  IF scps = <<>> THEN <<>>
  ELSE Head(scps).permissions \o ConcatPermissions(Tail(scps))

AllPermissions(policy) == ConcatPermissions(policy.scopes)

\* typeof reference === 'number' ? reference : parseFloat(String(reference));
\* an array of 0x.. addresses prints as "0x..,.." and parses as 0, [] prints as ""
\* and parses as NaN (<<>> here: every comparison with it is false)
NumericReference(ref) ==
  IF ref.kind = "number" THEN Some(ref.num)
  ELSE IF ref.list = <<>> THEN None ELSE Some(0)

Matches(p, t) == p.chainId = t.chainId /\ p.type = t.type

Verdict(ok, cond) == [allowed |-> ok, condition |-> cond]

Range(f) == {f[i] : i \in DOMAIN f}

Min(S) == CHOOSE m \in S : \A n \in S : m <= n

\* getAllowedChainsFromPolicy without the test of the effect
getAllowedChainsFromPolicy_anyEffect(policy) ==
  {p.chainId : p \in Range(AllPermissions(policy))}

\* getAllowedChainsFromPolicy: chainIds of the ALLOW permissions
getAllowedChainsFromPolicy(policy) ==
  {p.chainId : p \in {q \in Range(AllPermissions(policy)) : q.effect = "ALLOW"}}

\* NoMatchingPermission with a permissive default on a chain the policy allows
NoMatchingPermission_permissive(policy, t) ==
  IF t.chainId \notin getAllowedChainsFromPolicy(policy)
  THEN Verdict(FALSE, "chain_restriction")
  ELSE Verdict(TRUE, "")

\* the tail of the three evaluators: no permission matched (chainId, type)
NoMatchingPermission(policy, t) ==
  IF t.chainId \notin getAllowedChainsFromPolicy(policy)
  THEN Verdict(FALSE, "chain_restriction")
  ELSE Verdict(FALSE, "no_permission")

(***************************************************************************)
(* validateAgainstParaPolicy, the client pre-check with the DENY pass      *)
(* first (VALUE LESS_THAN and TO_ADDRESS INCLUDED_IN only)                 *)
(***************************************************************************)
\* CheckCondition failing a VALUE condition when the transaction has no valueUsd
CheckCondition_absentFails(c, t) ==
  IF c.resource = "VALUE"
       /\ c.comparator = "LESS_THAN"
       /\ IsSome(NumericReference(c.reference))
       /\ (~IsSome(t.valueUsd) \/ Get(t.valueUsd) >= Get(NumericReference(c.reference)))
  THEN "value_limit"
  ELSE IF c.resource = "TO_ADDRESS" /\ Truthy(t.to)
            /\ c.comparator = "INCLUDED_IN"
            /\ ~includes(c.reference.list, toLowerCase(Get(t.to)))
  THEN "address_whitelist"
  ELSE ""

\* one iteration of the condition loop: "" when the condition does not fail
CheckCondition(c, t) ==
  IF c.resource = "VALUE" /\ IsSome(t.valueUsd)
       /\ c.comparator = "LESS_THAN"
       /\ IsSome(NumericReference(c.reference))
       /\ Get(t.valueUsd) >= Get(NumericReference(c.reference))
  THEN "value_limit"
  ELSE IF c.resource = "TO_ADDRESS" /\ Truthy(t.to)
            /\ c.comparator = "INCLUDED_IN"
            /\ ~includes(c.reference.list, toLowerCase(Get(t.to)))
  THEN "address_whitelist"
  ELSE ""

\* the condition loop with its early returns: the outcome of the first condition
\* that fails, "" when every one passes
CheckConditions(conds, t) ==
  LET failing == {i \in DOMAIN conds : CheckCondition(conds[i], t) # ""}
  IN IF failing = {} THEN "" ELSE CheckCondition(conds[Min(failing)], t)

\* a variant in which any matching ALLOW whose conditions pass allows
validateAgainstParaPolicy_anyAllow(policy, t) ==
  LET perms == AllPermissions(policy)
      denies == {i \in DOMAIN perms : Matches(perms[i], t) /\ perms[i].effect = "DENY"}
      allows == {i \in DOMAIN perms : Matches(perms[i], t) /\ perms[i].effect = "ALLOW"}
      passing == {i \in allows : CheckConditions(perms[i].conditions, t) = ""}
  IN IF denies # {} THEN Verdict(FALSE, "action_denied")
     ELSE IF passing # {} THEN Verdict(TRUE, "")
     ELSE IF allows # {}
     THEN Verdict(FALSE, CheckConditions(perms[Min(allows)].conditions, t))
     ELSE NoMatchingPermission(policy, t)

validateAgainstParaPolicy(policy, t) ==
  LET perms == AllPermissions(policy)
      denies == {i \in DOMAIN perms : Matches(perms[i], t) /\ perms[i].effect = "DENY"}
      allows == {i \in DOMAIN perms : Matches(perms[i], t) /\ perms[i].effect = "ALLOW"}
  IN IF denies # {} THEN Verdict(FALSE, "action_denied")
     ELSE IF allows # {}
     THEN LET r == CheckConditions(perms[Min(allows)].conditions, t)
          IN Verdict(r = "", r)
     ELSE NoMatchingPermission(policy, t)

(***************************************************************************)
(* validateAgainstParaPolicy of utils/paraPolicyBuilder.ts: one pass, the  *)
(* first permission that matches (chainId, type) decides                   *)
(***************************************************************************)
CheckCondition_utils(c, t) ==
  LET limit == NumericReference(c.reference)
      isValue == c.resource = "VALUE" /\ IsSome(t.valueUsd)
      isTo == c.resource = "TO_ADDRESS" /\ Truthy(t.to)
  IN IF isValue /\ c.comparator = "LESS_THAN" /\ IsSome(limit)
          /\ Get(t.valueUsd) >= Get(limit)
     THEN "value_limit"
     ELSE IF isValue /\ c.comparator = "EQUALS" /\ t.valueUsd # limit
     THEN "value_exact"
     ELSE IF isTo /\ c.comparator = "INCLUDED_IN"
               /\ ~includes(c.reference.list, toLowerCase(Get(t.to)))
     THEN "address_whitelist"
     ELSE IF isTo /\ c.comparator = "NOT_INCLUDED_IN"
               /\ includes(c.reference.list, toLowerCase(Get(t.to)))
     THEN "address_blacklist"
     ELSE ""

\* the condition loop with its early returns: the outcome of the first condition
\* that fails, "" when every one passes
CheckConditions_utils(conds, t) ==
  LET failing == {i \in DOMAIN conds : CheckCondition_utils(conds[i], t) # ""}
  IN IF failing = {} THEN "" ELSE CheckCondition_utils(conds[Min(failing)], t)

validateAgainstParaPolicy_utils(policy, t) ==
  LET perms == AllPermissions(policy)
      matching == {i \in DOMAIN perms : Matches(perms[i], t)}
  IN IF matching = {} THEN NoMatchingPermission(policy, t)
     ELSE LET p == perms[Min(matching)]
          IN IF p.effect = "DENY" THEN Verdict(FALSE, "action_denied")
             ELSE LET r == CheckConditions_utils(p.conditions, t)
                  IN Verdict(r = "", r)

(***************************************************************************)
(* validateTransaction of the sign endpoint (server side): one pass, the   *)
(* first permission that matches (chainId, type) decides                   *)
(***************************************************************************)
\* CheckCondition_sign with an inclusive limit (> for >=)
CheckCondition_sign_inclusive(c, t) ==
  LET limit == NumericReference(c.reference)
      isValue == c.resource = "VALUE" /\ IsSome(t.valueUsd)
      isTo == c.resource = "TO_ADDRESS" /\ Truthy(t.to)
      addresses == mapToLowerCase(c.reference.list)
      toAddress == toLowerCase(Get(t.to))
  IN IF isValue /\ c.comparator = "LESS_THAN" /\ IsSome(limit)
          /\ Get(t.valueUsd) > Get(limit)
     THEN "value_limit"
     ELSE IF isValue /\ c.comparator = "GREATER_THAN" /\ IsSome(limit)
               /\ Get(t.valueUsd) <= Get(limit)
     THEN "value_minimum"
     ELSE IF isValue /\ c.comparator = "EQUALS" /\ t.valueUsd # limit
     THEN "value_exact"
     ELSE IF isTo /\ c.comparator = "INCLUDED_IN" /\ ~includes(addresses, toAddress)
     THEN "address_whitelist"
     ELSE IF isTo /\ c.comparator = "NOT_INCLUDED_IN" /\ includes(addresses, toAddress)
     THEN "address_blacklist"
     ELSE IF isTo /\ c.comparator = "EQUALS"
               /\ (addresses = <<>> \/ toAddress # Head(addresses))
     THEN "address_exact"
     ELSE ""

CheckCondition_sign(c, t) ==
  LET limit == NumericReference(c.reference)
      isValue == c.resource = "VALUE" /\ IsSome(t.valueUsd)
      isTo == c.resource = "TO_ADDRESS" /\ Truthy(t.to)
      addresses == mapToLowerCase(c.reference.list)
      toAddress == toLowerCase(Get(t.to))
  IN IF isValue /\ c.comparator = "LESS_THAN" /\ IsSome(limit)
          /\ Get(t.valueUsd) >= Get(limit)
     THEN "value_limit"
     ELSE IF isValue /\ c.comparator = "GREATER_THAN" /\ IsSome(limit)
               /\ Get(t.valueUsd) <= Get(limit)
     THEN "value_minimum"
     ELSE IF isValue /\ c.comparator = "EQUALS" /\ t.valueUsd # limit
     THEN "value_exact"
     ELSE IF isTo /\ c.comparator = "INCLUDED_IN" /\ ~includes(addresses, toAddress)
     THEN "address_whitelist"
     ELSE IF isTo /\ c.comparator = "NOT_INCLUDED_IN" /\ includes(addresses, toAddress)
     THEN "address_blacklist"
     ELSE IF isTo /\ c.comparator = "EQUALS"
               /\ (addresses = <<>> \/ toAddress # Head(addresses))
     THEN "address_exact"
     ELSE ""

\* the condition loop with its early returns: the outcome of the first condition
\* that fails, "" when every one passes
CheckConditions_sign(conds, t) ==
  LET failing == {i \in DOMAIN conds : CheckCondition_sign(conds[i], t) # ""}
  IN IF failing = {} THEN "" ELSE CheckCondition_sign(conds[Min(failing)], t)

validateTransaction_sign(policy, t) ==
  LET perms == AllPermissions(policy)
      matching == {i \in DOMAIN perms : Matches(perms[i], t)}
  IN IF matching = {} THEN NoMatchingPermission(policy, t)
     ELSE LET p == perms[Min(matching)]
          IN IF p.effect = "DENY" THEN Verdict(FALSE, "action_denied")
             ELSE LET r == CheckConditions_sign(p.conditions, t)
                  IN Verdict(r = "", r)


(***************************************************************************)
(* buildParaPolicy, the compiler with the recipient allowlist and the      *)
(* DENY SMART_CONTRACT scope (Base only)                                   *)
(***************************************************************************)
\* JavaScript truthiness of an optional number: undefined and 0 are falsy
TruthyNumber(o) == IsSome(o) /\ Get(o) # 0

buildTransferPermission(chainId, usdLimit, allowedAddresses) ==
  Permission("ALLOW", chainId, "TRANSFER",
    (IF IsSome(usdLimit) /\ Get(usdLimit) > 0
     THEN <<Condition("VALUE", "LESS_THAN", NumberRef(Get(usdLimit)))>> ELSE <<>>)
    \o
    (IF IsSome(allowedAddresses) /\ Len(Get(allowedAddresses)) > 0
     THEN <<Condition("TO_ADDRESS", "INCLUDED_IN",
                      ArrayRef(mapToLowerCase(Get(allowedAddresses))))>>
     ELSE <<>>))

\* buildDenyDeployPermission with the effect mistyped
buildDenyDeployPermission_allow(chainId) ==
  Permission("ALLOW", chainId, "DEPLOY_CONTRACT", <<>>)

buildDenyDeployPermission(chainId) ==
  Permission("DENY", chainId, "DEPLOY_CONTRACT", <<>>)

buildDenySmartContractPermission(chainId) ==
  Permission("DENY", chainId, "SMART_CONTRACT", <<>>)

buildParaPolicy(o) ==
  LET chainId == BASE_CHAIN_ID
      hasAddresses == IsSome(o.allowedAddresses) /\ Len(Get(o.allowedAddresses)) > 0
      transferScope ==
        Scope("allowance_transfer",
              Description("Allow sending funds on Base",
                          IF TruthyNumber(o.usdLimit) THEN o.usdLimit ELSE None,
                          IF hasAddresses THEN Some(Len(Get(o.allowedAddresses))) ELSE None),
              TRUE,
              <<buildTransferPermission(chainId, o.usdLimit, o.allowedAddresses)>>)
      blockDeployScope ==
        Scope("block_deploys",
              Description("Block all contract deployments for security", None, None),
              TRUE, <<buildDenyDeployPermission(chainId)>>)
      blockSmartContractScope ==
        Scope("block_smart_contracts",
              Description("Block all smart contract calls (transfers only)", None, None),
              TRUE, <<buildDenySmartContractPermission(chainId)>>)
  IN Policy(IF IsSome(o.partnerId) THEN Get(o.partnerId) ELSE PARTNER_ID,
            o.validFrom, o.validTo,
            <<transferScope, blockDeployScope, blockSmartContractScope>>)

(***************************************************************************)
(* buildParaPolicy of utils/paraPolicyBuilder.ts: chain resolution, no     *)
(* allowlist, SIGN_MESSAGE allowed, DENY DEPLOY_CONTRACT                   *)
(***************************************************************************)
buildTransferPermission_utils(chainId, usdLimit) ==
  Permission("ALLOW", chainId, "TRANSFER",
    IF IsSome(usdLimit) /\ Get(usdLimit) > 0
    THEN <<Condition("VALUE", "LESS_THAN", NumberRef(Get(usdLimit)))>> ELSE <<>>)

buildSignMessagePermission_utils(chainId) ==
  Permission("ALLOW", chainId, "SIGN_MESSAGE", <<>>)

buildDenyDeployPermission_utils(chainId) ==
  Permission("DENY", chainId, "DEPLOY_CONTRACT", <<>>)

\* options.restrictToBase ? [BASE] : (options.allowedChains?.length ? allowedChains : ALL)
resolveAllowedChains_utils(o) ==
  IF o.restrictToBase THEN <<BASE_CHAIN_ID>>
  ELSE IF IsSome(o.allowedChains) /\ Len(Get(o.allowedChains)) > 0
       THEN Get(o.allowedChains)
       ELSE ALL_ALLOWED_CHAINS

buildParaPolicy_utils(o) ==
  LET allowedChains == resolveAllowedChains_utils(o)
      usd == IF TruthyNumber(o.usdLimit) THEN o.usdLimit ELSE None
      chainText == IF o.restrictToBase THEN " on Base" ELSE " on N chain(s)"
      chainCount == IF o.restrictToBase THEN None ELSE Some(Len(allowedChains))
  IN Policy(IF IsSome(o.partnerId) THEN Get(o.partnerId) ELSE PARTNER_ID,
            o.validFrom, o.validTo,
            <<Scope("transfer",
                    Description("Allow sending funds" \o chainText, usd, chainCount),
                    TRUE,
                    [i \in DOMAIN allowedChains |->
                       buildTransferPermission_utils(allowedChains[i], o.usdLimit)]),
              Scope("sign_messages",
                    Description("Allow signing messages for verification" \o chainText,
                                None, chainCount),
                    FALSE,
                    [i \in DOMAIN allowedChains |->
                       buildSignMessagePermission_utils(allowedChains[i])]),
              Scope("deny_deploy",
                    Description("Block contract deployment for security", None, None),
                    TRUE,
                    [i \in DOMAIN allowedChains |->
                       buildDenyDeployPermission_utils(allowedChains[i])])>>)

(***************************************************************************)
(* buildParaPolicy of the create-wallet endpoint (server side)             *)
(***************************************************************************)
\* the options the create-wallet handler builds from the request body
CreateWalletOptions(o) == [restrictToBase |-> o.restrictToBase, maxUsd |-> o.usdLimit]

buildParaPolicy_createWallet(o, clock) ==
  LET allowedChains == IF o.restrictToBase THEN <<BASE_CHAIN_ID>> ELSE ALL_CHAINS
      conditions ==
        IF IsSome(o.maxUsd) /\ Get(o.maxUsd) > 0
        THEN <<Condition("VALUE", "LESS_THAN", NumberRef(Get(o.maxUsd)))>> ELSE <<>>
  IN Policy(PARTNER_ID, Some(clock), None,
            <<Scope("transfer",
                    Description("Allow sending funds"
                                  \o (IF o.restrictToBase THEN " on Base" ELSE ""),
                                IF TruthyNumber(o.maxUsd) THEN o.maxUsd ELSE None, None),
                    TRUE,
                    [i \in DOMAIN allowedChains |->
                       Permission("ALLOW", allowedChains[i], "TRANSFER", conditions)]),
              Scope("sign_messages",
                    Description("Allow signing messages for verification", None, None),
                    FALSE,
                    [i \in DOMAIN allowedChains |->
                       Permission("ALLOW", allowedChains[i], "SIGN_MESSAGE", <<>>)]),
              Scope("deny_deploy",
                    Description("Block contract deployment for security", None, None),
                    TRUE,
                    [i \in DOMAIN allowedChains |->
                       Permission("DENY", allowedChains[i], "DEPLOY_CONTRACT", <<>>)])>>)

(***************************************************************************)
(* getUsdLimitFromPolicy: the USD limit a document encodes                 *)
(***************************************************************************)
\* the conditions of the ALLOW/TRANSFER permissions, in the order the loops visit them
RECURSIVE AllowTransferConditions(_)
AllowTransferConditions(perms) ==
  IF perms = <<>> THEN <<>>
  ELSE (IF Head(perms).type = "TRANSFER" /\ Head(perms).effect = "ALLOW"
        THEN Head(perms).conditions ELSE <<>>)
       \o AllowTransferConditions(Tail(perms))

\* the loop over the conditions with its running minLimit (None is null)
RECURSIVE MinLimit(_, _)
MinLimit(conds, minLimit) ==
  IF conds = <<>> THEN minLimit
  ELSE LET c == Head(conds)
           value == NumericReference(c.reference)
       IN IF c.resource = "VALUE" /\ c.comparator \in {"LESS_THAN", "EQUALS"}
               /\ IsSome(value)
               /\ (minLimit = None \/ Get(value) < Get(minLimit))
          THEN MinLimit(Tail(conds), value)
          ELSE MinLimit(Tail(conds), minLimit)

getUsdLimitFromPolicy(policy) ==
  MinLimit(AllowTransferConditions(AllPermissions(policy)), None)

getUsdLimitFromPolicy_utils(policy) ==
  MinLimit(AllowTransferConditions(AllPermissions(policy)), None)

\* the create-wallet endpoint returns at the first VALUE LESS_THAN condition
getUsdLimitFromPolicy_createWallet(policy) ==
  LET conds == AllowTransferConditions(AllPermissions(policy))
      found == {i \in DOMAIN conds :
                  conds[i].resource = "VALUE" /\ conds[i].comparator = "LESS_THAN"}
  IN IF found = {} THEN None
     ELSE IF conds[Min(found)].reference.kind = "number"
          THEN Some(conds[Min(found)].reference.num)
          ELSE None

(***************************************************************************)
(* formatPolicyForDisplay: JSON.stringify(policy, null, 2).  The text is   *)
(* held as the tree of its tokens: objects are sequences of properties in  *)
(* the order they are written                                              *)
(***************************************************************************)
JsonNull == [json |-> "null"]
JsonNumber(n) == [json |-> "number", value |-> n]
JsonString(str) == [json |-> "string", value |-> str]
JsonBoolean(b) == [json |-> "boolean", value |-> b]
JsonArray(items) == [json |-> "array", value |-> items]
JsonObject(properties) == [json |-> "object", value |-> properties]

\* JsonProperty writing null for a property whose value is undefined
JsonProperty_null(key, value) ==
  IF IsSome(value) THEN <<[key |-> key, value |-> Get(value)]>>
  ELSE <<[key |-> key, value |-> JsonNull]>>

\* a property of an object: JSON.stringify leaves out a property whose value is
\* undefined
JsonProperty(key, value) ==
  IF IsSome(value) THEN <<[key |-> key, value |-> Get(value)]>> ELSE <<>>

stringifyReference(ref) ==
  IF ref.kind = "number" THEN JsonNumber(ref.num)
  ELSE JsonArray([i \in DOMAIN ref.list |-> JsonString(ref.list[i])])

stringifyCondition(c) ==
  JsonObject(JsonProperty("type", Some(JsonString(c.type)))
             \o JsonProperty("resource", Some(JsonString(c.resource)))
             \o JsonProperty("comparator", Some(JsonString(c.comparator)))
             \o JsonProperty("reference", Some(stringifyReference(c.reference))))

stringifyPermission(p) ==
  JsonObject(JsonProperty("effect", Some(JsonString(p.effect)))
             \o JsonProperty("chainId", Some(JsonString(p.chainId)))
             \o JsonProperty("type", Some(JsonString(p.type)))
             \o JsonProperty("conditions",
                  Some(JsonArray([i \in DOMAIN p.conditions |->
                                    stringifyCondition(p.conditions[i])]))))

stringifyScope(scope) ==
  JsonObject(JsonProperty("name", Some(JsonString(scope.name)))
             \o JsonProperty("description", Some(JsonString(scope.description)))
             \o JsonProperty("required", Some(JsonBoolean(scope.required)))
             \o JsonProperty("permissions",
                  Some(JsonArray([i \in DOMAIN scope.permissions |->
                                    stringifyPermission(scope.permissions[i])]))))

formatPolicyForDisplay(doc) ==
  JsonObject(JsonProperty("partnerId", Some(JsonString(doc.partnerId)))
             \o JsonProperty("validFrom",
                  IF IsSome(doc.validFrom) THEN Some(JsonNumber(Get(doc.validFrom))) ELSE None)
             \o JsonProperty("validTo",
                  IF IsSome(doc.validTo) THEN Some(JsonNumber(Get(doc.validTo))) ELSE None)
             \o JsonProperty("scopes",
                  Some(JsonArray([i \in DOMAIN doc.scopes |-> stringifyScope(doc.scopes[i])]))))

\* object[key] after JSON.parse: None (undefined) when the text has no such
\* property, the last one written otherwise
JsonGet(object, key) ==
  LET found == {i \in DOMAIN object.value : object.value[i].key = key}
  IN IF found = {} THEN None
     ELSE Some(object.value[CHOOSE i \in found : \A j \in found : j <= i].value)

\* a number or null read as an optional number: null stays a value of its own
parseNumber(property) ==
  IF ~IsSome(property) THEN None
  ELSE IF Get(property).json = "number" THEN Some(Get(property).value)
  ELSE Some("null")

parseReference(json) ==
  IF json.json = "number" THEN NumberRef(json.value)
  ELSE ArrayRef([i \in DOMAIN json.value |-> json.value[i].value])

parseCondition(json) ==
  [type |-> Get(JsonGet(json, "type")).value,
   resource |-> Get(JsonGet(json, "resource")).value,
   comparator |-> Get(JsonGet(json, "comparator")).value,
   reference |-> parseReference(Get(JsonGet(json, "reference")))]

parsePermission(json) ==
  LET conditions == Get(JsonGet(json, "conditions")).value
  IN [effect |-> Get(JsonGet(json, "effect")).value,
      chainId |-> Get(JsonGet(json, "chainId")).value,
      type |-> Get(JsonGet(json, "type")).value,
      conditions |-> [i \in DOMAIN conditions |-> parseCondition(conditions[i])]]

parseScope(json) ==
  LET permissions == Get(JsonGet(json, "permissions")).value
  IN [name |-> Get(JsonGet(json, "name")).value,
      description |-> Get(JsonGet(json, "description")).value,
      required |-> Get(JsonGet(json, "required")).value,
      permissions |-> [i \in DOMAIN permissions |-> parsePermission(permissions[i])]]

\* JSON.parse of a document's text, read as a ParaPolicyJSON
parsePolicy(json) ==
  LET scopes == Get(JsonGet(json, "scopes")).value
  IN [partnerId |-> Get(JsonGet(json, "partnerId")).value,
      validFrom |-> parseNumber(JsonGet(json, "validFrom")),
      validTo |-> parseNumber(JsonGet(json, "validTo")),
      scopes |-> [i \in DOMAIN scopes |-> parseScope(scopes[i])]]

(***************************************************************************)
(* checkUsdLimit of utils/permissionEnforcement.ts                         *)
(***************************************************************************)
checkUsdLimit(valueUsd, usdLimit) ==
  IF valueUsd >= usdLimit
  THEN [isAllowed |-> FALSE, blockedByRule |-> "USD_LIMIT_EXCEEDED"]
  ELSE [isAllowed |-> TRUE, blockedByRule |-> ""]

(***************************************************************************)
(* validateTransaction of utils/permissionEnforcement.ts: the pre-check on  *)
(* the PermissionPolicy aggregate                                           *)
(***************************************************************************)
TransactionValidation(isAllowed, blockedByRule) ==
  [isAllowed |-> isAllowed, blockedByRule |-> blockedByRule]

\* a TransactionRequest: `to`, `data`, `type` and `valueUsd` may be absent
TransactionRequest(to, data, chainId, type, valueUsd) ==
  [to |-> to, data |-> data, chainId |-> chainId, type |-> type, valueUsd |-> valueUsd]

\* the string "0x"
HexPrefix == <<"0", "x">>

\* a variant that looks at `data` before `to`
detectTransactionType_dataFirst(transaction) ==
  IF IsSome(transaction.type) THEN Get(transaction.type)
  ELSE IF Truthy(transaction.data) /\ Get(transaction.data) # HexPrefix
            /\ Len(Get(transaction.data)) > Len(HexPrefix)
  THEN "SMART_CONTRACT"
  ELSE IF ~Truthy(transaction.to) \/ Get(transaction.to) = HexPrefix
  THEN "DEPLOY_CONTRACT"
  ELSE "TRANSFER"

detectTransactionType(transaction) ==
  IF IsSome(transaction.type) THEN Get(transaction.type)
  ELSE IF ~Truthy(transaction.to) \/ Get(transaction.to) = HexPrefix
  THEN "DEPLOY_CONTRACT"
  ELSE IF Truthy(transaction.data) /\ Get(transaction.data) # HexPrefix
            /\ Len(Get(transaction.data)) > Len(HexPrefix)
  THEN "SMART_CONTRACT"
  ELSE "TRANSFER"

\* the keys of typeToAction
BlockableTypes == {"DEPLOY_CONTRACT", "SMART_CONTRACT", "SIGN_MESSAGE"}

checkBlockedActions(txType, blockedActions) ==
  IF txType \in BlockableTypes /\ includes(blockedActions, txType)
  THEN TransactionValidation(FALSE, txType)
  ELSE TransactionValidation(TRUE, "")

validateTransaction(transaction, pol) ==
  IF ~pol.isActive THEN TransactionValidation(FALSE, "POLICY_INACTIVE")
  ELSE IF ~includes(pol.allowedChains, transaction.chainId)
  THEN TransactionValidation(FALSE, "CHAIN_NOT_ALLOWED")
  ELSE LET txType == detectTransactionType(transaction)
           blockedActionCheck == checkBlockedActions(txType, pol.blockedActions)
       IN IF ~blockedActionCheck.isAllowed THEN blockedActionCheck
          ELSE IF IsSome(pol.usdLimit) /\ Get(pol.usdLimit) > 0
                    /\ IsSome(transaction.valueUsd)
                    /\ ~checkUsdLimit(Get(transaction.valueUsd), Get(pol.usdLimit)).isAllowed
          THEN checkUsdLimit(Get(transaction.valueUsd), Get(pol.usdLimit))
          ELSE TransactionValidation(TRUE, "")

(***************************************************************************)
(* State                                                                   *)
(***************************************************************************)
VARIABLES
  phase,      \* "build" | "evaluated" | "introspected" | "options" | "compiled" | "displayed" | "idle"
  policy,     \* the policy document handed to the evaluators
  tx,         \* the transaction evaluated last, None before
  verdicts,   \* what each evaluator returned for (policy, tx), None before
  options,    \* the PolicyBuildOptions handed to the compilers, None before
  compiled,   \* the documents the compilers returned, None before
  recompiled, \* the documents a second call with the same options returned
  compiledVerdicts, \* what each evaluator returned on each compiled document
  now,        \* the wall clock, Date.now()
  usdLimits,  \* what each getUsdLimitFromPolicy returned for policy, None before
  displayed,  \* the compiled documents parsed back from their display text
  policies,   \* PermissionContext: the policies state (PermissionPolicy[])
  lastCall,   \* PermissionContext: the last call, and whether buildParaPolicy threw
  createWalletPolicies, \* inMemoryPolicies of the create-wallet module
  signPolicies,         \* inMemoryPolicies of the sign-transaction module
  env,        \* process.env of the server: which secret keys are configured
  response,   \* the last HTTP response of the server, with the request it answers
  linkedAccounts, \* localStorage LINKED_ACCOUNTS: child address -> link record
  userProfile,    \* PermissionContext: the userProfile state, None when null
  currentPolicy,  \* PermissionContext: the currentPolicy state, None when null
  handled,        \* the last call of a dashboard handler, with the state it found
  precheck        \* the last validateTransaction call and its result, None before

\* the variables of the compiler/evaluator specifications
compilerVars ==
  <<phase, policy, tx, verdicts, options, compiled, recompiled, compiledVerdicts,
    now, usdLimits, displayed>>

\* the variables of the PermissionContext specification
contextVars == <<policies, lastCall>>

\* the variables of the server specification
serverVars == <<createWalletPolicies, signPolicies, env, response>>

\* the variables of the dashboard and pre-check specifications
dashboardVars == <<linkedAccounts, userProfile, currentPolicy, handled, precheck>>

vars == <<compilerVars, contextVars, serverVars, dashboardVars>>

(***************************************************************************)
(* Inputs of the evaluators: documents and transactions                    *)
(***************************************************************************)
ValueLessThan(l) == Condition("VALUE", "LESS_THAN", NumberRef(l))
ValueGreaterThan(l) == Condition("VALUE", "GREATER_THAN", NumberRef(l))
ValueEquals(l) == Condition("VALUE", "EQUALS", NumberRef(l))
ToIncludedIn(l) == Condition("TO_ADDRESS", "INCLUDED_IN", ArrayRef(l))
ToNotIncludedIn(l) == Condition("TO_ADDRESS", "NOT_INCLUDED_IN", ArrayRef(l))

ConditionLists ==
  {<<>>, <<ValueGreaterThan(1)>>, <<ValueEquals(1)>>,
   <<ToIncludedIn(<<AddrLower>>)>>, <<ToIncludedIn(<<AddrMixed>>)>>,
   <<ToNotIncludedIn(<<AddrLower>>)>>,
   <<ValueLessThan(1), ToIncludedIn(<<AddrLower>>)>>}
  \cup {<<ValueLessThan(l)>> : l \in 1..MaxUsd}

PermissionPool ==
  {Permission("ALLOW", BASE_CHAIN_ID, "TRANSFER", cs) : cs \in ConditionLists}
  \cup {Permission("ALLOW", "1", "TRANSFER", <<>>),
        Permission("ALLOW", BASE_CHAIN_ID, "DEPLOY_CONTRACT", <<>>),
        Permission("DENY", BASE_CHAIN_ID, "TRANSFER", <<>>),
        Permission("DENY", BASE_CHAIN_ID, "DEPLOY_CONTRACT", <<>>),
        Permission("DENY", "1", "TRANSFER", <<>>)}

Transaction(chain, ty, to, usd) ==
  [chainId |-> chain, type |-> ty, to |-> to, valueUsd |-> usd]

OptionalAddresses == {None} \cup {Some(a) : a \in Addresses}
OptionalUsd == {None} \cup {Some(v) : v \in 0..MaxUsd}

EvalTransactions ==
  {Transaction(c, ty, to, usd) :
     c \in {BASE_CHAIN_ID, "1"}, ty \in {"TRANSFER", "DEPLOY_CONTRACT"},
     to \in OptionalAddresses, usd \in OptionalUsd}

EmptyPolicy == Policy(PARTNER_ID, None, None, <<>>)

Evaluators == {"client", "utils", "sign"}

\* the three evaluators applied to one document and one transaction
EvaluateAll(doc, t) ==
  [client |-> validateAgainstParaPolicy(doc, t),
   utils |-> validateAgainstParaPolicy_utils(doc, t),
   sign |-> validateTransaction_sign(doc, t)]

(***************************************************************************)
(* Specification SpecEval: any document, any transaction                   *)
(***************************************************************************)
\* no call of the PermissionContext yet
NoCall == [op |-> "", policyId |-> "", threw |-> FALSE, previous |-> None]

\* an empty Map
EmptyMap == [k \in {} |-> None]

\* no dashboard handler called yet
NoHandler == [op |-> "", policyId |-> "", argument |-> "", before |-> <<>>]

\* the PermissionContext is not part of the run
ContextIdle ==
  /\ policies = <<>>
  /\ lastCall = NoCall
  /\ linkedAccounts = EmptyMap
  /\ userProfile = None
  /\ currentPolicy = None
  /\ handled = NoHandler
  /\ precheck = None

\* the server is not part of the run
ServerIdle ==
  /\ createWalletPolicies = EmptyMap
  /\ signPolicies = EmptyMap
  /\ env = [STRIPE_SECRET_KEY |-> FALSE, PARA_SECRET_KEY |-> FALSE]
  /\ response = None

InitEval ==
  /\ phase = "build"
  /\ policy = EmptyPolicy
  /\ tx = None
  /\ verdicts = None
  /\ options = None
  /\ compiled = None
  /\ recompiled = None
  /\ compiledVerdicts = None
  /\ now = 0
  /\ usdLimits = None
  /\ displayed = None
  /\ ContextIdle
  /\ ServerIdle

\* a document is written one permission at a time, into the last scope or a new one
AddPermission(p, newScope) ==
  /\ phase = "build"
  /\ Len(AllPermissions(policy)) < MaxPerms
  /\ LET scps == policy.scopes
         n == Len(scps)
     IN policy' =
          IF newScope \/ n = 0
          THEN [policy EXCEPT !.scopes =
                  Append(scps, Scope("scope_" \o ToString(n + 1), Description("", None, None), FALSE, <<p>>))]
          ELSE [policy EXCEPT !.scopes[n].permissions = Append(@, p)]
  /\ UNCHANGED <<phase, tx, verdicts, options, compiled, recompiled, compiledVerdicts, now>>
  /\ UNCHANGED <<usdLimits, displayed, contextVars, dashboardVars, serverVars>>

\* the client pre-check and the sign endpoint decide one transaction
Evaluate(t) ==
  /\ phase = "build"
  /\ phase' = "evaluated"
  /\ tx' = Some(t)
  /\ verdicts' = Some(EvaluateAll(policy, t))
  /\ UNCHANGED <<policy, options, compiled, recompiled, compiledVerdicts, now>>
  /\ UNCHANGED <<usdLimits, displayed, contextVars, dashboardVars, serverVars>>

\* the three getUsdLimitFromPolicy read the limit of the document
Introspect ==
  /\ phase = "build"
  /\ phase' = "introspected"
  /\ usdLimits' = Some([client |-> getUsdLimitFromPolicy(policy),
                        utils |-> getUsdLimitFromPolicy_utils(policy),
                        createWallet |-> getUsdLimitFromPolicy_createWallet(policy)])
  /\ UNCHANGED <<policy, tx, verdicts, options, compiled, recompiled, compiledVerdicts,
                 now, displayed, contextVars, dashboardVars, serverVars>>

NextEval ==
  \/ \E p \in PermissionPool, newScope \in BOOLEAN : AddPermission(p, newScope)
  \/ \E t \in EvalTransactions : Evaluate(t)
  \/ Introspect

SpecEval == InitEval /\ [][NextEval]_vars

(***************************************************************************)
(* Specification SpecCompile: any options, compiled (twice), then any      *)
(* transaction evaluated against the compiled documents                    *)
(***************************************************************************)
PolicyBuildOptions(usd, base, chains, addrs, from) ==
  [name |-> "policy", usdLimit |-> usd, restrictToBase |-> base,
   allowedChains |-> chains, allowedAddresses |-> addrs,
   partnerId |-> None, validFrom |-> from, validTo |-> None]

OptionsPool ==
  {PolicyBuildOptions(usd, base, chains, addrs, from) :
     usd \in OptionalUsd,
     base \in BOOLEAN,
     chains \in {None, Some(<<>>), Some(<<"1">>), Some(<<"1", BASE_CHAIN_ID>>)},
     addrs \in {None, Some(<<>>), Some(<<AddrMixed>>), Some(<<AddrMalformed>>)},
     from \in {None, Some(1)}}

CompiledTransactions ==
  {Transaction(c, ty, to, usd) :
     c \in {BASE_CHAIN_ID, "1", "56"}, ty \in TxTypes,
     to \in OptionalAddresses, usd \in OptionalUsd}

Compilers == {"client", "utils", "createWallet"}

\* the three compilers applied to the same parent configuration
CompileAll(o, clock) ==
  [client |-> buildParaPolicy(o),
   utils |-> buildParaPolicy_utils(o),
   createWallet |-> buildParaPolicy_createWallet(CreateWalletOptions(o), clock)]

InitCompile ==
  /\ phase = "options"
  /\ policy = EmptyPolicy
  /\ tx = None
  /\ verdicts = None
  /\ options = None
  /\ compiled = None
  /\ recompiled = None
  /\ compiledVerdicts = None
  /\ now = 0
  /\ usdLimits = None
  /\ displayed = None
  /\ ContextIdle
  /\ ServerIdle

\* the first call of the compilers
Compile(o) ==
  /\ phase = "options"
  /\ phase' = "compiled"
  /\ options' = Some(o)
  /\ compiled' = Some(CompileAll(o, now))
  /\ UNCHANGED <<policy, tx, verdicts, recompiled, compiledVerdicts, now>>
  /\ UNCHANGED <<usdLimits, displayed, contextVars, dashboardVars, serverVars>>

\* time passes between the two calls
Tick ==
  /\ phase = "compiled"
  /\ recompiled = None
  /\ now < MaxClock
  /\ now' = now + 1
  /\ UNCHANGED <<phase, policy, tx, verdicts, options, compiled, recompiled,
                 compiledVerdicts>>
  /\ UNCHANGED <<usdLimits, displayed, contextVars, dashboardVars, serverVars>>

\* a second call with identical options
Recompile ==
  /\ phase = "compiled"
  /\ recompiled = None
  /\ recompiled' = Some(CompileAll(Get(options), now))
  /\ UNCHANGED <<phase, policy, tx, verdicts, options, compiled, compiledVerdicts, now>>
  /\ UNCHANGED <<usdLimits, displayed, contextVars, dashboardVars, serverVars>>

\* every evaluator decides one transaction against every compiled document
EvaluateCompiled(t) ==
  /\ phase = "compiled"
  /\ phase' = "evaluated"
  /\ tx' = Some(t)
  /\ compiledVerdicts' = Some([k \in Compilers |-> EvaluateAll(Get(compiled)[k], t)])
  /\ UNCHANGED <<policy, verdicts, options, compiled, recompiled, now>>
  /\ UNCHANGED <<usdLimits, displayed, contextVars, dashboardVars, serverVars>>

\* the compiled documents are formatted for display and the text is parsed back
Display ==
  /\ phase = "compiled"
  /\ phase' = "displayed"
  /\ displayed' = Some([k \in Compilers |->
                          parsePolicy(formatPolicyForDisplay(Get(compiled)[k]))])
  /\ UNCHANGED <<policy, tx, verdicts, options, compiled, recompiled, compiledVerdicts,
                 now, usdLimits, contextVars, dashboardVars, serverVars>>

NextCompile ==
  \/ \E o \in OptionsPool : Compile(o)
  \/ Tick
  \/ Recompile
  \/ \E t \in CompiledTransactions : EvaluateCompiled(t)
  \/ Display

SpecCompile == InitCompile /\ [][NextCompile]_vars

(***************************************************************************)
(* Properties of the evaluators (SpecEval)                                 *)
(***************************************************************************)
Evaluated == phase = "evaluated" /\ verdicts # None

\* the positions of the permissions with the transaction's (chainId, type)
MatchingPermissions ==
  {i \in DOMAIN AllPermissions(policy) : Matches(AllPermissions(policy)[i], Get(tx))}

\* the transaction's (chainId, type) is matched by exactly one permission, an ALLOW
\* with the single condition (resource, comparator)
OnlyMatchIsAllowWith(resource, comparator) ==
  /\ Cardinality(MatchingPermissions) = 1
  /\ LET p == AllPermissions(policy)[Min(MatchingPermissions)]
     IN /\ p.effect = "ALLOW"
        /\ Len(p.conditions) = 1
        /\ p.conditions[1].resource = resource
        /\ p.conditions[1].comparator = comparator

OnlyMatchReference ==
  AllPermissions(policy)[Min(MatchingPermissions)].conditions[1].reference

\* C1: DENY precedence. Whenever some permission of the document, in any scope and
\* at any position, has effect DENY and the transaction's (chainId, type), every
\* evaluator returns allowed = false.
C1_DenyPrecedence ==
  Evaluated =>
    ((\E p \in Range(AllPermissions(policy)) : p.effect = "DENY" /\ Matches(p, Get(tx)))
       => \A e \in Evaluators : ~Get(verdicts)[e].allowed)

\* C3: fail-closed default. When no permission of the document (ALLOW or DENY) has
\* the transaction's (chainId, type), every evaluator returns allowed = false; the
\* empty document allows nothing.
C3_FailClosedDefault ==
  Evaluated =>
    (MatchingPermissions = {} => \A e \in Evaluators : ~Get(verdicts)[e].allowed)

\* a transaction on a chain the document allows, of a type it has no permission for
C3_Witness ==
  /\ Evaluated
  /\ MatchingPermissions = {}
  /\ Get(tx).chainId \in getAllowedChainsFromPolicy(policy)
  /\ \A e \in Evaluators : Get(verdicts)[e] = Verdict(FALSE, "no_permission")

\* C4: exclusive limit. When the only permission matching a TRANSFER is an ALLOW
\* with the single condition VALUE LESS_THAN L and the transaction carries
\* valueUsd, every evaluator (and checkUsdLimit) allows it iff valueUsd < L.
C4_ExclusiveLimit ==
  (Evaluated /\ Get(tx).type = "TRANSFER" /\ IsSome(Get(tx).valueUsd)
     /\ OnlyMatchIsAllowWith("VALUE", "LESS_THAN")
     /\ OnlyMatchReference.kind = "number")
  => LET v == Get(Get(tx).valueUsd)
         L == OnlyMatchReference.num
     IN /\ \A e \in Evaluators : Get(verdicts)[e].allowed <=> v < L
        /\ checkUsdLimit(v, L).isAllowed <=> v < L

\* a transfer of exactly the limit, denied by every evaluator
C4_Witness ==
  /\ Evaluated /\ Get(tx).type = "TRANSFER" /\ IsSome(Get(tx).valueUsd)
  /\ OnlyMatchIsAllowWith("VALUE", "LESS_THAN")
  /\ Get(Get(tx).valueUsd) = OnlyMatchReference.num
  /\ \A e \in Evaluators : Get(verdicts)[e] = Verdict(FALSE, "value_limit")

\* C5: case-insensitive allowlist. When the only permission matching the
\* transaction is an ALLOW with the single condition TO_ADDRESS INCLUDED_IN refs
\* and the transaction carries `to`, every evaluator allows it iff the lowercased
\* `to` equals the lowercased form of some entry of refs.
C5_CaseInsensitiveAllowlist ==
  (Evaluated /\ Truthy(Get(tx).to) /\ OnlyMatchIsAllowWith("TO_ADDRESS", "INCLUDED_IN"))
  => \A e \in Evaluators :
       Get(verdicts)[e].allowed
         <=> includes(mapToLowerCase(OnlyMatchReference.list),
                      toLowerCase(Get(Get(tx).to)))

\* C6: client/server agreement. The client pre-checks and the sign endpoint's
\* evaluator return the same allowed value for every document and transaction.
C6_ClientServerAgreement ==
  Evaluated =>
    /\ Get(verdicts).client.allowed = Get(verdicts).sign.allowed
    /\ Get(verdicts).utils.allowed = Get(verdicts).sign.allowed

ValueFailures == {"value_limit", "value_minimum", "value_exact"}
AddressFailures == {"address_whitelist", "address_blacklist", "address_exact"}

\* no DENY permission has the transaction's (chainId, type) and some ALLOW has
AllowMatchedOnly ==
  /\ MatchingPermissions # {}
  /\ \A i \in MatchingPermissions : AllPermissions(policy)[i].effect = "ALLOW"

\* C17: absent input skips the condition. No evaluator fails a VALUE condition
\* when the transaction has no valueUsd, nor a TO_ADDRESS condition when it has no
\* `to`; a transaction with neither, matched by ALLOW permissions only, is allowed.
C17_AbsentInputSkipsCondition ==
  Evaluated =>
    \A e \in Evaluators :
      /\ ~IsSome(Get(tx).valueUsd) => Get(verdicts)[e].condition \notin ValueFailures
      /\ ~IsSome(Get(tx).to) => Get(verdicts)[e].condition \notin AddressFailures
      /\ (~IsSome(Get(tx).valueUsd) /\ ~IsSome(Get(tx).to) /\ AllowMatchedOnly)
           => Get(verdicts)[e].allowed

\* a transfer with neither valueUsd nor `to`, allowed by an ALLOW permission that
\* carries a VALUE and a TO_ADDRESS condition
C17_Witness ==
  /\ Evaluated /\ Get(tx).type = "TRANSFER"
  /\ ~IsSome(Get(tx).valueUsd) /\ ~IsSome(Get(tx).to)
  /\ Cardinality(MatchingPermissions) = 1
  /\ AllPermissions(policy)[Min(MatchingPermissions)] =
       Permission("ALLOW", BASE_CHAIN_ID, "TRANSFER",
                  <<ValueLessThan(1), ToIncludedIn(<<AddrLower>>)>>)
  /\ \A e \in Evaluators : Get(verdicts)[e] = Verdict(TRUE, "")

\* the transaction's chainId is on some ALLOW permission of the document
ChainOnSomeAllow ==
  \E i \in DOMAIN AllPermissions(policy) :
    /\ AllPermissions(policy)[i].effect = "ALLOW"
    /\ AllPermissions(policy)[i].chainId = Get(tx).chainId

\* C18: when no permission matches the transaction's (chainId, type), the reason
\* is 'chain not allowed' iff the chainId is on no ALLOW permission of the document
\* and 'no permission for this action' iff it is on some ALLOW permission.
C18_NoMatchReasons ==
  (Evaluated /\ MatchingPermissions = {})
  => \A e \in Evaluators :
       /\ Get(verdicts)[e].condition = "chain_restriction" <=> ~ChainOnSomeAllow
       /\ Get(verdicts)[e].condition = "no_permission" <=> ChainOnSomeAllow

\* a transaction on a chain that only a DENY permission names, of another type
C18_Witness ==
  /\ Evaluated /\ MatchingPermissions = {}
  /\ \E p \in Range(AllPermissions(policy)) :
       p.effect = "DENY" /\ p.chainId = Get(tx).chainId
  /\ ~ChainOnSomeAllow
  /\ \A e \in Evaluators : Get(verdicts)[e] = Verdict(FALSE, "chain_restriction")

\* the numeric references of the VALUE LESS_THAN and VALUE EQUALS conditions on the
\* ALLOW/TRANSFER permissions of a document
LimitReferences(doc) ==
  UNION {{c.reference.num :
            c \in {d \in Range(p.conditions) :
                     /\ d.resource = "VALUE"
                     /\ d.comparator \in {"LESS_THAN", "EQUALS"}
                     /\ d.reference.kind = "number"}} :
           p \in {q \in Range(AllPermissions(doc)) :
                    q.effect = "ALLOW" /\ q.type = "TRANSFER"}}

\* C19: every getUsdLimitFromPolicy returns the minimum numeric reference over
\* the VALUE LESS_THAN and VALUE EQUALS conditions of the ALLOW/TRANSFER
\* permissions of the document, and null when there is none.
C19_MinimumUsdLimit ==
  usdLimits # None =>
    \A k \in DOMAIN Get(usdLimits) :
      Get(usdLimits)[k] =
        IF LimitReferences(policy) = {} THEN None
        ELSE Some(Min(LimitReferences(policy)))

\* C21: when the only permission matching the transaction is an ALLOW with the
\* single condition VALUE GREATER_THAN r and the transaction carries valueUsd,
\* every evaluator denies it when valueUsd <= r and allows it when valueUsd > r.
C21_GreaterThanMinimum ==
  (Evaluated /\ IsSome(Get(tx).valueUsd)
     /\ OnlyMatchIsAllowWith("VALUE", "GREATER_THAN")
     /\ OnlyMatchReference.kind = "number")
  => \A e \in Evaluators :
       Get(verdicts)[e].allowed <=> Get(Get(tx).valueUsd) > OnlyMatchReference.num

\* the outcome of evaluator e's condition loop on the permission at position i
ConditionOutcome(e, i) ==
  LET conds == AllPermissions(policy)[i].conditions
  IN CASE e = "client" -> CheckConditions(conds, Get(tx))
       [] e = "utils" -> CheckConditions_utils(conds, Get(tx))
       [] e = "sign" -> CheckConditions_sign(conds, Get(tx))

\* C30 as stated: with no matching DENY permission, if some ALLOW permission with
\* the transaction's (chainId, type) has all its conditions satisfied, the
\* evaluator returns allowed = true, also when an earlier matching ALLOW fails.
C30_AnySatisfiedAllowAllows ==
  (Evaluated /\ AllowMatchedOnly) =>
    \A e \in {"client", "sign"} :
      (\E i \in MatchingPermissions : ConditionOutcome(e, i) = "")
        => Get(verdicts)[e].allowed

\* C30, amended: with no matching DENY permission, the first ALLOW permission with
\* the transaction's (chainId, type) decides alone: the evaluator returns allowed =
\* true when all of its conditions pass and the failing condition otherwise,
\* whatever a later matching ALLOW permission would have said.
C30_FirstMatchingAllowDecides ==
  (Evaluated /\ AllowMatchedOnly) =>
    \A e \in {"client", "sign"} :
      LET r == ConditionOutcome(e, Min(MatchingPermissions))
      IN Get(verdicts)[e] = Verdict(r = "", r)

\* the first matching ALLOW fails a condition, a later one passes, and the
\* transaction is denied
C30_Witness ==
  /\ Evaluated
  /\ AllowMatchedOnly
  /\ \A e \in {"client", "sign"} :
       /\ ConditionOutcome(e, Min(MatchingPermissions)) # ""
       /\ \E i \in MatchingPermissions : ConditionOutcome(e, i) = ""
       /\ ~Get(verdicts)[e].allowed

(***************************************************************************)
(* Properties of the compilers (SpecCompile)                               *)
(***************************************************************************)
Compiled == compiled # None

\* the chainIds on a document's ALLOW/TRANSFER permissions
TransferChains(doc) ==
  {p.chainId : p \in {q \in Range(AllPermissions(doc)) :
                        q.effect = "ALLOW" /\ q.type = "TRANSFER"}}

\* the (scope, permission) positions of the DENY permissions of type ty on chain c
\* that sit in a required scope and carry no condition
RequiredDenials(doc, c, ty) ==
  {pos \in UNION {{<<i, j>> : j \in DOMAIN doc.scopes[i].permissions} :
                    i \in DOMAIN doc.scopes} :
     /\ doc.scopes[pos[1]].required
     /\ doc.scopes[pos[1]].permissions[pos[2]] = Permission("DENY", c, ty, <<>>)}

\* C2: against the document any compiler produces from any options, every
\* evaluator denies every DEPLOY_CONTRACT and every SMART_CONTRACT transaction.
C2_CompiledDeniesContracts ==
  (phase = "evaluated" /\ compiledVerdicts # None
     /\ Get(tx).type \in {"DEPLOY_CONTRACT", "SMART_CONTRACT"})
  => \A k \in Compilers, e \in Evaluators : ~Get(compiledVerdicts)[k][e].allowed

\* a deployment on Base, denied by the DENY permission of every compiled document
C2_Witness ==
  /\ phase = "evaluated" /\ compiledVerdicts # None
  /\ Get(tx).type = "DEPLOY_CONTRACT"
  /\ Get(tx).chainId = BASE_CHAIN_ID
  /\ \A k \in Compilers, e \in Evaluators :
       Get(compiledVerdicts)[k][e] = Verdict(FALSE, "action_denied")

\* C7: every compiled document contains, for each chain it compiles transfers
\* for, one DENY/DEPLOY_CONTRACT and one DENY/SMART_CONTRACT permission, each in
\* a required scope and without conditions.
C7_RequiredDenyScopes ==
  Compiled =>
    \A k \in Compilers : \A c \in TransferChains(Get(compiled)[k]) :
      /\ Cardinality(RequiredDenials(Get(compiled)[k], c, "DEPLOY_CONTRACT")) = 1
      /\ Cardinality(RequiredDenials(Get(compiled)[k], c, "SMART_CONTRACT")) = 1

\* the chain set the configuration selects
ConfiguredChains(o) ==
  IF o.restrictToBase THEN {BASE_CHAIN_ID}
  ELSE IF IsSome(o.allowedChains) /\ Len(Get(o.allowedChains)) > 0
       THEN Range(Get(o.allowedChains))
       ELSE Range(ALL_ALLOWED_CHAINS)

\* C8: chain resolution. The chainIds on the compiled ALLOW/TRANSFER permissions
\* are {"8453"} when restrictToBase, else options.allowedChains when non-empty,
\* else the default full chain set.
C8_ChainResolution ==
  Compiled =>
    \A k \in Compilers : TransferChains(Get(compiled)[k]) = ConfiguredChains(Get(options))

\* the condition sequence the configuration asks for on a transfer permission
ConfiguredConditions(o) ==
  (IF IsSome(o.usdLimit) /\ Get(o.usdLimit) > 0
   THEN <<ValueLessThan(Get(o.usdLimit))>> ELSE <<>>)
  \o (IF IsSome(o.allowedAddresses) /\ Len(Get(o.allowedAddresses)) > 0
      THEN <<ToIncludedIn(mapToLowerCase(Get(o.allowedAddresses)))>> ELSE <<>>)

\* C9: each compiled ALLOW/TRANSFER permission carries VALUE LESS_THAN usdLimit
\* iff usdLimit is positive, TO_ADDRESS INCLUDED_IN (the lowercased
\* allowedAddresses) iff allowedAddresses is non-empty, and nothing else.
C9_TransferConditions ==
  Compiled =>
    \A k \in Compilers : \A p \in Range(AllPermissions(Get(compiled)[k])) :
      (p.effect = "ALLOW" /\ p.type = "TRANSFER")
        => p.conditions = ConfiguredConditions(Get(options))

\* C10: compiler determinism. Two calls with identical options that carry no
\* validFrom/validTo return identical documents, whatever the time of the calls.
C10_CompilerDeterminism ==
  (Compiled /\ recompiled # None
     /\ Get(options).validFrom = None /\ Get(options).validTo = None)
  => \A k \in Compilers : Get(recompiled)[k] = Get(compiled)[k]

\* the options the compiler is to refuse
InvalidPolicyOptions(o) ==
  \/ IsSome(o.usdLimit) /\ Get(o.usdLimit) <= 0
  \/ IsSome(o.allowedAddresses)
       /\ \E i \in DOMAIN Get(o.allowedAddresses) : ~IsHexAddress(Get(o.allowedAddresses)[i])

\* C11: the compiler fails, producing no document, whenever usdLimit is present
\* but not strictly positive or some entry of allowedAddresses is not a 0x-prefixed
\* hex address: no document is ever compiled from such options.
C11_InvalidOptionsRejected ==
  Compiled => ~InvalidPolicyOptions(Get(options))

POLICY_TEMPLATES ==
  <<[id |-> "base-only",
     description |-> "Restricted to Base chain only. No spending limits.",
     hasUsdLimit |-> FALSE, usdLimit |-> None, allowedChains |-> <<BASE_CHAIN_ID>>],
    [id |-> "safe-spend",
     description |-> "Restricted to Base chain with a $15 USD transaction limit.",
     hasUsdLimit |-> TRUE, usdLimit |-> Some(15), allowedChains |-> <<BASE_CHAIN_ID>>]>>

\* POLICY_TEMPLATES.find(t => t.id === id)
getPolicyTemplate(id) ==
  LET found == {i \in DOMAIN POLICY_TEMPLATES : POLICY_TEMPLATES[i].id = id}
  IN IF found = {} THEN None ELSE Some(POLICY_TEMPLATES[Min(found)])

StringRef(str) == [kind |-> "string", num |-> 0, list |-> <<str>>]

TemplateCondition(ty, op, val) == [type |-> ty, operator |-> op, value |-> val]

\* None when the call throws `Unknown policy template`, else the document
buildParaPolicy_template(o) ==
  LET template == getPolicyTemplate(o.templateId)
  IN IF ~IsSome(template) THEN None
     ELSE
       LET t == Get(template)
           allowlist == IF IsSome(o.allowlist) THEN Get(o.allowlist) ELSE <<>>
           usdLimit == IF IsSome(o.customUsdLimit) THEN o.customUsdLimit ELSE t.usdLimit
           globalConditions ==
             <<TemplateCondition("chain", "in", ArrayRef(t.allowedChains)),
               TemplateCondition("action", "notEquals", StringRef("deploy"))>>
             \o (IF t.hasUsdLimit /\ TruthyNumber(usdLimit)
                 THEN <<TemplateCondition("value", "lessThanOrEqual", NumberRef(Get(usdLimit)))>>
                 ELSE <<>>)
           allowedAddresses == [i \in DOMAIN allowlist |-> toLowerCase(allowlist[i].address)]
           transferPermissions ==
             <<[type |-> "transfer",
                conditions |-> <<TemplateCondition("address", "in", ArrayRef(allowedAddresses))>>]>>
       IN Some([version |-> "1.0",
                name |-> o.name,
                description |-> t.description,
                allowedChains |-> t.allowedChains,
                scopes |->
                  <<Scope("Send Funds", "Allow sending ETH to approved addresses", TRUE,
                          transferPermissions),
                    Scope("Sign Messages", "Allow signing messages for verification", FALSE,
                          <<[type |-> "sign", conditions |-> <<>>]>>)>>,
                globalConditions |-> globalConditions])

(***************************************************************************)
(* PermissionContext: the policies state and the calls that change it      *)
(***************************************************************************)
ApprovedMerchant(id, address) == [id |-> id, address |-> address]

\* the parent's wallet address
ParentAddress == AddrOther

\* DEFAULT_BLOCKED_ACTIONS of the types the template-based context is written for
DEFAULT_BLOCKED_ACTIONS_template ==
  <<"CONTRACT_DEPLOY", "TRANSFER_OUTSIDE_ALLOWLIST", "APPROVE_TOKEN_SPEND">>

\* a stored policy as createDefaultPolicy fills it; createdAt and updatedAt are
\* left out
PermissionPolicy(id, templateId, usdLimit) ==
  [id |-> id, name |-> "policy", templateId |-> templateId, allowlist |-> <<>>,
   usdLimit |-> usdLimit, allowedAddresses |-> None, restrictToBase |-> None,
   allowedChains |-> <<BASE_CHAIN_ID>>, paraPolicyJSON |-> None,
   parentWalletAddress |-> ParentAddress, childWalletAddress |-> None,
   blockedActions |-> DEFAULT_BLOCKED_ACTIONS_template, isActive |-> TRUE]

\* the call of buildParaPolicy the context makes for a policy
BuildForPolicy(pol) ==
  buildParaPolicy_template(
    [templateId |-> pol.templateId, name |-> pol.name,
     allowlist |-> Some(pol.allowlist), customUsdLimit |-> pol.usdLimit])

\* the record of a call: its name, its target, whether buildParaPolicy threw and
\* the compiled document the target had before
Call(op, policyId, threw, previous) ==
  [op |-> op, policyId |-> policyId, threw |-> threw, previous |-> previous]

\* the compiled document of the policy with this id before the call, None if none
PreviousDocument(policyId) ==
  LET found == {i \in DOMAIN policies : policies[i].id = policyId}
  IN IF found = {} THEN None ELSE policies[Min(found)].paraPolicyJSON

\* whether buildParaPolicy throws for the policy with this id once `change` is applied
Throws(policyId, changed) ==
  \E i \in DOMAIN policies :
    policies[i].id = policyId /\ ~IsSome(BuildForPolicy(changed[i]))

\* the ids generateId() hands out, in order, and the ids the calls are made with
PolicyIds == <<"policy-1">>
CallIds == {"policy-1", "policy-2"}
TemplateIds == {"base-only", "safe-spend", "custom"}
Merchants ==
  {ApprovedMerchant("merchant-1", AddrMixed), ApprovedMerchant("merchant-2", AddrOther)}

createPolicy(templateId, usdLimit) ==
  /\ Len(policies) < Len(PolicyIds)
  /\ LET policyData == PermissionPolicy(PolicyIds[Len(policies) + 1], templateId, usdLimit)
         paraPolicyJSON == BuildForPolicy(policyData)
     IN /\ policies' = Append(policies, [policyData EXCEPT !.paraPolicyJSON = paraPolicyJSON])
        /\ lastCall' = Call("createPolicy", policyData.id, ~IsSome(paraPolicyJSON), None)
        /\ userProfile' =
             IF IsSome(userProfile)
             THEN Some([Get(userProfile) EXCEPT !.policyId = Some(policyData.id)])
             ELSE userProfile
  /\ UNCHANGED <<compilerVars, serverVars, linkedAccounts, currentPolicy, handled, precheck>>

\* let paraPolicyJSON; try { paraPolicyJSON = buildParaPolicy(..) } catch {}; the
\* policy is replaced by { ...policy, paraPolicyJSON }
rebuildParaPolicyJSON(policyId) ==
  /\ policies' =
       [i \in DOMAIN policies |->
          IF policies[i].id # policyId THEN policies[i]
          ELSE [policies[i] EXCEPT !.paraPolicyJSON = BuildForPolicy(policies[i])]]
  /\ lastCall' = Call("rebuildParaPolicyJSON", policyId, Throws(policyId, policies),
                      PreviousDocument(policyId))
  /\ UNCHANGED <<compilerVars, dashboardVars, serverVars>>

\* { ...policy, ...updates }: the settings screen saves usdLimit, allowedAddresses,
\* allowedChains and restrictToBase
updatePolicy_handleSave(policyId, newUsdLimit, newAllowedAddresses) ==
  /\ policies' =
       [i \in DOMAIN policies |->
          IF policies[i].id = policyId
          THEN [policies[i] EXCEPT !.usdLimit = newUsdLimit,
                                   !.allowedAddresses = newAllowedAddresses,
                                   !.allowedChains = <<BASE_CHAIN_ID>>,
                                   !.restrictToBase = Some(TRUE)]
          ELSE policies[i]]
  /\ lastCall' = Call("updatePolicy", policyId, FALSE, PreviousDocument(policyId))
  /\ UNCHANGED <<compilerVars, dashboardVars, serverVars>>

\* { ...policy, ...updates } with updates = { templateId }
updatePolicy_templateId(policyId, templateId) ==
  /\ policies' =
       [i \in DOMAIN policies |->
          IF policies[i].id = policyId
          THEN [policies[i] EXCEPT !.templateId = templateId]
          ELSE policies[i]]
  /\ lastCall' = Call("updatePolicy", policyId, FALSE, PreviousDocument(policyId))
  /\ UNCHANGED <<compilerVars, dashboardVars, serverVars>>

\* the allowlist is changed first; the compiled document is assigned only when
\* buildParaPolicy returns
WithAllowlist(policyId, changed) ==
  [i \in DOMAIN policies |->
     IF policies[i].id # policyId THEN policies[i]
     ELSE IF IsSome(BuildForPolicy(changed[i]))
          THEN [changed[i] EXCEPT !.paraPolicyJSON = BuildForPolicy(changed[i])]
          ELSE changed[i]]

addMerchantToAllowlist(policyId, merchant) ==
  /\ \A i \in DOMAIN policies :
       policies[i].id = policyId => Len(policies[i].allowlist) < MaxAllowlist
  /\ LET changed == [i \in DOMAIN policies |->
                       [policies[i] EXCEPT !.allowlist = Append(@, merchant)]]
     IN /\ policies' = WithAllowlist(policyId, changed)
        /\ lastCall' = Call("addMerchantToAllowlist", policyId, Throws(policyId, changed),
                            PreviousDocument(policyId))
  /\ UNCHANGED <<compilerVars, dashboardVars, serverVars>>

\* Array.prototype.filter(m => m.id !== merchantId)
RECURSIVE FilterMerchant(_, _)
FilterMerchant(allowlist, merchantId) ==
  IF allowlist = <<>> THEN <<>>
  ELSE IF Head(allowlist).id # merchantId
       THEN <<Head(allowlist)>> \o FilterMerchant(Tail(allowlist), merchantId)
       ELSE FilterMerchant(Tail(allowlist), merchantId)

removeMerchantFromAllowlist(policyId, merchantId) ==
  /\ LET changed == [i \in DOMAIN policies |->
                       [policies[i] EXCEPT !.allowlist = FilterMerchant(@, merchantId)]]
     IN /\ policies' = WithAllowlist(policyId, changed)
        /\ lastCall' = Call("removeMerchantFromAllowlist", policyId,
                            Throws(policyId, changed), PreviousDocument(policyId))
  /\ UNCHANGED <<compilerVars, dashboardVars, serverVars>>

(***************************************************************************)
(* Specification SpecContext: the calls of the PermissionContext in any    *)
(* order                                                                   *)
(***************************************************************************)
InitContext ==
  /\ phase = "idle"
  /\ policy = EmptyPolicy
  /\ tx = None
  /\ verdicts = None
  /\ options = None
  /\ compiled = None
  /\ recompiled = None
  /\ compiledVerdicts = None
  /\ now = 0
  /\ usdLimits = None
  /\ displayed = None
  /\ ContextIdle
  /\ ServerIdle

NextContext ==
  \/ \E t \in TemplateIds \ {"custom"}, u \in {None, Some(MaxUsd)} : createPolicy(t, u)
  \/ \E id \in CallIds : rebuildParaPolicyJSON(id)
  \/ \E id \in CallIds, u \in {None} \cup {Some(v) : v \in 1..MaxUsd},
        a \in {None, Some(<<AddrLower>>)} : updatePolicy_handleSave(id, u, a)
  \/ \E id \in CallIds, t \in TemplateIds : updatePolicy_templateId(id, t)
  \/ \E id \in CallIds, m \in Merchants : addMerchantToAllowlist(id, m)
  \/ \E id \in CallIds, m \in Merchants : removeMerchantFromAllowlist(id, m.id)

SpecContext == InitContext /\ [][NextContext]_vars

(***************************************************************************)
(* Properties of the PermissionContext (SpecContext)                       *)
(***************************************************************************)
Recompilations ==
  {"rebuildParaPolicyJSON", "addMerchantToAllowlist", "removeMerchantFromAllowlist"}

\* C12: when buildParaPolicy fails during a recompilation (rebuildParaPolicyJSON,
\* addMerchantToAllowlist, removeMerchantFromAllowlist) of a policy that has a
\* compiled document, the policy keeps that document.
C12_FailedRecompilationKeepsDocument ==
  (lastCall.op \in Recompilations /\ lastCall.threw /\ IsSome(lastCall.previous))
  => \A i \in DOMAIN policies :
       policies[i].id = lastCall.policyId
         => policies[i].paraPolicyJSON = lastCall.previous

\* C13: after any sequence of createPolicy, updatePolicy, allowlist edits and
\* rebuildParaPolicyJSON, the compiled document of every stored policy is what
\* buildParaPolicy returns for the policy's current configuration.
C13_CompiledDocumentCurrent ==
  \A i \in DOMAIN policies : policies[i].paraPolicyJSON = BuildForPolicy(policies[i])

(***************************************************************************)
(* The server: the create-wallet endpoint and the sign-transaction         *)
(* endpoint, each a module with its own inMemoryPolicies Map               *)
(***************************************************************************)
\* Map.prototype.set
MapSet(map, key, value) ==
  [k \in DOMAIN map \cup {key} |-> IF k = key THEN value ELSE map[k]]

\* String.prototype.toUpperCase on the transaction types a request carries
toUpperCase(str) ==
  CASE str = "transfer" -> "TRANSFER"
    [] str = "deploy_contract" -> "DEPLOY_CONTRACT"
    [] OTHER -> str

CreateWalletRequest(parent, base, maxUsd, token, devMode) ==
  [parentWalletAddress |-> parent, restrictToBase |-> base, maxUsd |-> maxUsd,
   paymentToken |-> token, devMode |-> devMode]

SignTransactionRequest(wallet, chain, ty, to, usd) ==
  [walletAddress |-> wallet, chainId |-> chain, transactionType |-> ty, to |-> to,
   valueUsd |-> usd]

\* an HTTP response: the JSON body's success, allowed, error and walletAddress, with
\* what the handler did on the way (policy lookup, validateTransaction, the Para SDK)
Response(endpoint, request, status, allowed, error, lookedUp, validation, paraCalled) ==
  [endpoint |-> endpoint, request |-> request, status |-> status,
   success |-> (status = 200), allowed |-> allowed, error |-> error,
   lookedUp |-> lookedUp, validation |-> validation, paraCalled |-> paraCalled,
   walletAddress |-> None]

verifyPayment(paymentToken, devMode, environment) ==
  IF ~environment.STRIPE_SECRET_KEY THEN devMode
  ELSE TruthyString(paymentToken)

\* a variant that stores the policy as soon as Para answers, before it looks for
\* the wallet's address
createWalletViaPara_storeFirst(parentAddress, document, map, environment, sdk, walletAddress) ==
  LET key == IF IsSome(walletAddress) THEN toLowerCase(Get(walletAddress)) ELSE <<>>
      stored == MapSet(map, key,
                       [policy |-> document, parentAddress |-> toLowerCase(parentAddress)])
  IN IF ~environment.PARA_SECRET_KEY
     THEN [success |-> FALSE, error |-> "Para API key not configured",
           paraCalled |-> FALSE, walletAddress |-> None, map |-> map]
     ELSE IF sdk = "missing"
     THEN [success |-> FALSE, error |-> "Para SDK failed to load",
           paraCalled |-> FALSE, walletAddress |-> None, map |-> map]
     ELSE IF sdk = "throws"
     THEN [success |-> FALSE, error |-> "Wallet creation failed",
           paraCalled |-> FALSE, walletAddress |-> None, map |-> map]
     ELSE IF ~Truthy(walletAddress)
     THEN [success |-> FALSE, error |-> "Para SDK returned no wallet address",
           paraCalled |-> TRUE, walletAddress |-> None, map |-> stored]
     ELSE [success |-> TRUE, error |-> "", paraCalled |-> TRUE,
           walletAddress |-> walletAddress, map |-> stored]

\* createWalletViaPara: what it returns and the Map after it.  sdk is what
\* import('@getpara/server-sdk') does, walletAddress what Para's wallet carries
createWalletViaPara(parentAddress, document, map, environment, sdk, walletAddress) ==
  IF ~environment.PARA_SECRET_KEY
  THEN [success |-> FALSE, error |-> "Para API key not configured",
        paraCalled |-> FALSE, walletAddress |-> None, map |-> map]
  ELSE IF sdk = "missing"
  THEN [success |-> FALSE, error |-> "Para SDK failed to load",
        paraCalled |-> FALSE, walletAddress |-> None, map |-> map]
  ELSE IF sdk = "throws"
  THEN [success |-> FALSE, error |-> "Wallet creation failed",
        paraCalled |-> FALSE, walletAddress |-> None, map |-> map]
  ELSE IF ~Truthy(walletAddress)
  THEN [success |-> FALSE, error |-> "Para SDK returned no wallet address",
        paraCalled |-> TRUE, walletAddress |-> None, map |-> map]
  ELSE [success |-> TRUE, error |-> "", paraCalled |-> TRUE,
        walletAddress |-> walletAddress,
        map |-> MapSet(map, toLowerCase(Get(walletAddress)),
                       [policy |-> document,
                        parentAddress |-> toLowerCase(parentAddress)])]

\* the create-wallet handler: the response and the Map after it
createWalletHandler(body, map, environment, clock, sdk, walletAddress) ==
  LET document ==
        buildParaPolicy_createWallet(
          [restrictToBase |-> IF IsSome(body.restrictToBase)
                              THEN Get(body.restrictToBase) ELSE FALSE,
           maxUsd |-> body.maxUsd], clock)
      fail(status, error) ==
        [response |-> Response("create-wallet", body, status, None, error,
                               FALSE, None, FALSE),
         map |-> map]
  IN IF ~Truthy(body.parentWalletAddress)
     THEN fail(400, "Parent wallet address required")
     ELSE IF ~IsHexAddress(Get(body.parentWalletAddress))
     THEN fail(400, "Invalid wallet address format")
     ELSE IF ~verifyPayment(body.paymentToken, body.devMode, environment)
     THEN fail(402, "Payment required")
     ELSE LET walletResult ==
                createWalletViaPara(Get(body.parentWalletAddress), document, map,
                                    environment, sdk, walletAddress)
              status == IF walletResult.success THEN 200 ELSE 500
          IN [response |->
                [Response("create-wallet", body, status, None, walletResult.error,
                          FALSE, None, walletResult.paraCalled)
                   EXCEPT !.walletAddress = walletResult.walletAddress],
              map |-> walletResult.map]

\* signTransactionHandler treating a missing policy record as no restriction
signTransactionHandler_unrestricted(body, map, environment, sdk) ==
  LET fail(status, error, lookedUp) ==
        Response("sign-transaction", body, status, None, error, lookedUp, None, FALSE)
  IN IF ~Truthy(body.walletAddress)
     THEN fail(400, "Wallet address required", FALSE)
     ELSE IF ~TruthyString(body.chainId)
     THEN fail(400, "Chain ID required", FALSE)
     ELSE IF ~IsHexAddress(Get(body.walletAddress))
     THEN fail(400, "Invalid wallet address format", FALSE)
     ELSE
       LET key == toLowerCase(Get(body.walletAddress))
       IN IF key \notin DOMAIN map
          THEN Response("sign-transaction", body, 200, Some(TRUE), "", TRUE, None, FALSE)
          ELSE fail(500, "Internal server error", TRUE)

\* the sign-transaction handler: the response (the handler writes no state)
signTransactionHandler(body, map, environment, sdk) ==
  LET fail(status, error, lookedUp) ==
        Response("sign-transaction", body, status, None, error, lookedUp, None, FALSE)
  IN IF ~Truthy(body.walletAddress)
     THEN fail(400, "Wallet address required", FALSE)
     ELSE IF ~TruthyString(body.chainId)
     THEN fail(400, "Chain ID required", FALSE)
     ELSE IF ~IsHexAddress(Get(body.walletAddress))
     THEN fail(400, "Invalid wallet address format", FALSE)
     ELSE
       LET transactionType ==
             IF IsSome(body.transactionType) /\ toUpperCase(Get(body.transactionType)) # ""
             THEN toUpperCase(Get(body.transactionType)) ELSE "TRANSFER"
           key == toLowerCase(Get(body.walletAddress))
       IN IF key \notin DOMAIN map
          THEN fail(404, "Wallet not found in policy store", TRUE)
          ELSE
            LET validation ==
                  validateTransaction_sign(
                    map[key].policy,
                    Transaction(Get(body.chainId), transactionType, body.to, body.valueUsd))
            IN IF ~validation.allowed
               THEN Response("sign-transaction", body, 403, Some(FALSE),
                             "Para Policy Rejection", TRUE, Some(validation), FALSE)
               ELSE IF ~environment.PARA_SECRET_KEY
               THEN Response("sign-transaction", body, 200, Some(TRUE), "",
                             TRUE, Some(validation), FALSE)
               ELSE IF sdk = "missing"
               THEN Response("sign-transaction", body, 500, None, "Para SDK failed to load",
                             TRUE, Some(validation), FALSE)
               ELSE IF sdk = "throws"
               THEN Response("sign-transaction", body, 500, None, "Para error",
                             TRUE, Some(validation), TRUE)
               ELSE Response("sign-transaction", body, 200, Some(TRUE), "",
                             TRUE, Some(validation), TRUE)

(***************************************************************************)
(* Specification SpecServer: requests to the two endpoints in any order,   *)
(* served at one reading of the clock                                      *)
(***************************************************************************)
SdkOutcomes == {"loaded", "missing", "throws"}

\* the payment fields of a create-wallet request: dev mode, a token, neither
PaymentFields ==
  {[paymentToken |-> None, devMode |-> TRUE],
   [paymentToken |-> Some("tok_1"), devMode |-> FALSE],
   [paymentToken |-> None, devMode |-> FALSE]}

CreateWalletRequests ==
  {CreateWalletRequest(parent, base, maxUsd, pay.paymentToken, pay.devMode) :
     parent \in {None, Some(AddrOther), Some(AddrMalformed)},
     base \in {None, Some(TRUE)},
     maxUsd \in OptionalUsd,
     pay \in PaymentFields}

SignTransactionRequests ==
  {SignTransactionRequest(wallet, chain, ty, None, usd) :
     wallet \in {None, Some(AddrLower), Some(AddrMixed), Some(AddrMalformed)},
     chain \in {None, Some(BASE_CHAIN_ID), Some("1")},
     ty \in {None, Some("TRANSFER"), Some("transfer"), Some("DEPLOY_CONTRACT")},
     usd \in {None, Some(MaxUsd)}}

InitServer ==
  /\ phase = "idle"
  /\ policy = EmptyPolicy
  /\ tx = None
  /\ verdicts = None
  /\ options = None
  /\ compiled = None
  /\ recompiled = None
  /\ compiledVerdicts = None
  /\ now = 0
  /\ usdLimits = None
  /\ displayed = None
  /\ ContextIdle
  /\ createWalletPolicies = EmptyMap
  /\ signPolicies = EmptyMap
  /\ env \in [STRIPE_SECRET_KEY : BOOLEAN, PARA_SECRET_KEY : BOOLEAN]
  /\ response = None

\* POST /api/create-wallet
CreateWallet(body, sdk, walletAddress) ==
  /\ LET r == createWalletHandler(body, createWalletPolicies, env, now, sdk, walletAddress)
     IN /\ response' = Some(r.response)
        /\ createWalletPolicies' = r.map
  /\ UNCHANGED <<signPolicies, env, compilerVars, contextVars, dashboardVars>>

\* POST /api/sign-transaction
SignTransaction(body, sdk) ==
  /\ response' = Some(signTransactionHandler(body, signPolicies, env, sdk))
  /\ UNCHANGED <<createWalletPolicies, signPolicies, env, compilerVars, contextVars, dashboardVars>>

NextServer ==
  \/ \E body \in CreateWalletRequests, sdk \in SdkOutcomes,
        walletAddress \in {None, Some(AddrMixed)} : CreateWallet(body, sdk, walletAddress)
  \/ \E body \in SignTransactionRequests, sdk \in SdkOutcomes : SignTransaction(body, sdk)

SpecServer == InitServer /\ [][NextServer]_vars

(***************************************************************************)
(* Properties of the server (SpecServer)                                   *)
(***************************************************************************)
\* the last response answers a sign request
Signed == response # None /\ Get(response).endpoint = "sign-transaction"

\* the sign request has a wallet address of the right format
HasWalletAddress ==
  Truthy(Get(response).request.walletAddress)
    /\ IsHexAddress(Get(Get(response).request.walletAddress))

\* the key of the sign request's wallet in a policy store
WalletKey == toLowerCase(Get(Get(response).request.walletAddress))

\* C14: when the policy store the sign endpoint reads has no record for the
\* request's wallet address, the response is a failure (success = false, never
\* allowed = true) and neither the evaluator nor the signing step has run.
C14_MissingPolicyIsDenied ==
  (Signed /\ Get(response).lookedUp /\ WalletKey \notin DOMAIN signPolicies)
  => /\ ~Get(response).success
     /\ Get(response).allowed # Some(TRUE)
     /\ Get(response).validation = None
     /\ ~Get(response).paraCalled

\* a well-formed request for a wallet without a record, answered 404
C14_Witness ==
  /\ Signed /\ Get(response).lookedUp /\ WalletKey \notin DOMAIN signPolicies
  /\ Get(response).request.chainId = Some(BASE_CHAIN_ID)
  /\ Get(response).request.transactionType = Some("TRANSFER")
  /\ Get(response).status = 404
  /\ Get(response).error = "Wallet not found in policy store"

\* C15: a sign request without chainId, or without the transaction type, is
\* rejected with an error before the policy lookup and before evaluation, and is
\* never answered allowed = true.
C15_MalformedRequestRejected ==
  (Signed /\ (~TruthyString(Get(response).request.chainId)
                \/ ~TruthyString(Get(response).request.transactionType)))
  => /\ Get(response).status = 400
     /\ ~Get(response).lookedUp
     /\ Get(response).validation = None
     /\ Get(response).allowed # Some(TRUE)

\* C16: once the create-wallet endpoint has stored a document for a wallet, a
\* later well-formed sign request for that wallet (in any letter case) is
\* decided by evaluating that stored document, and is not answered 'wallet not
\* found in policy store'.
C16_StoredPolicyDecides ==
  (Signed /\ HasWalletAddress
     /\ TruthyString(Get(response).request.chainId)
     /\ TruthyString(Get(response).request.transactionType)
     /\ WalletKey \in DOMAIN createWalletPolicies)
  => /\ Get(response).status # 404
     /\ Get(response).validation =
          Some(validateTransaction_sign(
                 createWalletPolicies[WalletKey].policy,
                 Transaction(Get(Get(response).request.chainId),
                             toUpperCase(Get(Get(response).request.transactionType)),
                             Get(response).request.to,
                             Get(response).request.valueUsd)))

\* the last response answers a create-wallet request
Created == response # None /\ Get(response).endpoint = "create-wallet"

\* the step is a create-wallet request answered with one of these statuses
CreateWalletAnswers(statuses) ==
  /\ response' # None
  /\ Get(response').endpoint = "create-wallet"
  /\ Get(response').status \in statuses

DEFAULT_BLOCKED_ACTIONS == <<"DEPLOY_CONTRACT">>

UserProfile(walletAddress, role, policyId, parentWalletAddress, childWalletAddresses) ==
  [walletAddress |-> walletAddress, role |-> role, policyId |-> policyId,
   parentWalletAddress |-> parentWalletAddress,
   childWalletAddresses |-> childWalletAddresses]

\* setupUserProfile: the profile of a parent who has signed in
ParentProfile == UserProfile(ParentAddress, "parent", None, None, None)

\* the record of a call of a handler: its name, its target, its argument and the
\* policies it found
Handled(op, policyId, argument, before) ==
  [op |-> op, policyId |-> policyId, argument |-> argument, before |-> before]

\* the compiled document of a policy: the canonical compiler applied to the
\* policy's configuration
CompiledDocument(pol) ==
  buildParaPolicy(PolicyBuildOptions(pol.usdLimit, TRUE, Some(pol.allowedChains),
                                     pol.allowedAddresses, None))

\* currentPolicy as the provider hands it to the parent's screens
parentCurrentPolicy ==
  IF IsSome(userProfile) /\ IsSome(Get(userProfile).policyId)
  THEN LET found == {i \in DOMAIN policies : policies[i].id = Get(Get(userProfile).policyId)}
       IN IF found = {} THEN None ELSE Some(policies[Min(found)])
  ELSE IF policies = <<>> THEN None ELSE Some(policies[1])

\* the review step of the onboarding: createPolicy with the configured limit and
\* allowlist, Base only, DEFAULT_BLOCKED_ACTIONS. One policy is created per run,
\* so that generateId never hands out an id twice.
handleCreatePolicy(limit, addresses, active) ==
  /\ IsSome(userProfile)
  /\ Get(userProfile).role = "parent"
  /\ ~IsSome(Get(userProfile).policyId)
  /\ Len(policies) < Len(PolicyIds)
  /\ LET id == PolicyIds[Len(policies) + 1]
         policyData == [PermissionPolicy(id, "", limit) EXCEPT
                          !.restrictToBase = Some(TRUE),
                          !.allowedChains = <<BASE_CHAIN_ID>>,
                          !.allowedAddresses = addresses,
                          !.blockedActions = DEFAULT_BLOCKED_ACTIONS,
                          !.isActive = active]
     IN /\ policies' = Append(policies,
                         [policyData EXCEPT !.paraPolicyJSON = Some(CompiledDocument(policyData))])
        /\ userProfile' = Some([Get(userProfile) EXCEPT !.policyId = Some(id)])
        /\ lastCall' = Call("createPolicy", id, FALSE, None)
        /\ handled' = Handled("handleCreatePolicy", id, "", policies)
  /\ UNCHANGED <<compilerVars, serverVars, linkedAccounts, currentPolicy, precheck>>

\* the strings a request carries as `to` and as `data`
CallData == <<"0", "x", "a", "9">>
RequestRecipients == {None, Some(<<>>), Some(HexPrefix), Some(AddrLower), Some(AddrOther)}
RequestData == {None, Some(<<>>), Some(HexPrefix), Some(AddrMalformed), Some(CallData)}

TransactionRequests ==
  {TransactionRequest(to, data, chainId, type, valueUsd) :
     to \in RequestRecipients, data \in RequestData,
     chainId \in {BASE_CHAIN_ID, "1"},
     type \in {None} \cup {Some(t) : t \in TxTypes},
     valueUsd \in OptionalUsd}

\* the transaction as the evaluator of the compiled document reads it
EvaluatedTransaction(request) ==
  Transaction(request.chainId, detectTransactionType(request), request.to, request.valueUsd)

\* the pre-check of a request against the parent's current policy, and beside it
\* the evaluation of the same transaction against the policy's compiled document.
\* The pre-check keeps no state: a run makes one.
ValidateTransaction(request) ==
  /\ ~IsSome(precheck)
  /\ IsSome(parentCurrentPolicy)
  /\ LET pol == Get(parentCurrentPolicy)
     IN precheck' =
          Some([transaction |-> request,
                policyId |-> pol.id,
                detected |-> detectTransactionType(request),
                validation |-> validateTransaction(request, pol),
                document |->
                  IF IsSome(pol.paraPolicyJSON)
                  THEN Some(validateAgainstParaPolicy(Get(pol.paraPolicyJSON),
                                                      EvaluatedTransaction(request)))
                  ELSE None])
  /\ UNCHANGED <<compilerVars, contextVars, serverVars, linkedAccounts, userProfile,
                 currentPolicy, handled>>

(***************************************************************************)
(* Specification SpecPrecheck: one onboarding, then any pre-check          *)
(***************************************************************************)
InitPrecheck ==
  /\ phase = "idle"
  /\ policy = EmptyPolicy
  /\ tx = None
  /\ verdicts = None
  /\ options = None
  /\ compiled = None
  /\ recompiled = None
  /\ compiledVerdicts = None
  /\ now = 0
  /\ usdLimits = None
  /\ displayed = None
  /\ policies = <<>>
  /\ lastCall = NoCall
  /\ linkedAccounts = EmptyMap
  /\ userProfile = Some(ParentProfile)
  /\ currentPolicy = None
  /\ handled = NoHandler
  /\ precheck = None
  /\ ServerIdle

NextPrecheck ==
  \/ \E limit \in {None} \cup {Some(v) : v \in 1..MaxUsd},
        addresses \in {None, Some(<<AddrLower>>)},
        active \in BOOLEAN : handleCreatePolicy(limit, addresses, active)
  \/ \E request \in TransactionRequests : ValidateTransaction(request)

SpecPrecheck == InitPrecheck /\ [][NextPrecheck]_vars

(***************************************************************************)
(* Properties of the pre-check (SpecPrecheck)                              *)
(***************************************************************************)
\* the request has no `to`: absent, empty or "0x"
NoRecipient(request) == request.to \in {None, Some(<<>>), Some(HexPrefix)}

\* C24 as stated: for every transaction shape, a transaction with no `to` is
\* classified DEPLOY_CONTRACT, otherwise one with non-empty `data` is classified
\* SMART_CONTRACT, otherwise it is classified TRANSFER.
C24_ClassificationPrecedence ==
  IsSome(precheck) =>
    LET request == Get(precheck).transaction
    IN Get(precheck).detected =
         IF NoRecipient(request) THEN "DEPLOY_CONTRACT"
         ELSE IF Truthy(request.data) THEN "SMART_CONTRACT"
         ELSE "TRANSFER"

\* C24, amended: a transaction that carries an explicit type is classified as that
\* type; one without is classified DEPLOY_CONTRACT when it has no `to` (absent,
\* empty or "0x"), otherwise SMART_CONTRACT when its `data` is longer than the bare
\* prefix "0x", otherwise TRANSFER.
C24_ClassificationOfUntypedRequests ==
  IsSome(precheck) =>
    LET request == Get(precheck).transaction
    IN Get(precheck).detected =
         IF IsSome(request.type) THEN Get(request.type)
         ELSE IF NoRecipient(request) THEN "DEPLOY_CONTRACT"
         ELSE IF IsSome(request.data) /\ Len(Get(request.data)) > Len(HexPrefix)
         THEN "SMART_CONTRACT"
         ELSE "TRANSFER"

\* an untyped request with call data and no recipient was classified as a deployment
C24_Witness ==
  /\ IsSome(precheck)
  /\ ~IsSome(Get(precheck).transaction.type)
  /\ NoRecipient(Get(precheck).transaction)
  /\ Get(precheck).transaction.data = Some(CallData)
  /\ Get(precheck).detected = "DEPLOY_CONTRACT"

REQUIRED_BLOCKED_ACTIONS == {"DEPLOY_CONTRACT", "SMART_CONTRACT"}

\* REQUIRED_BLOCKED_ACTIONS of the earlier policy screen
REQUIRED_BLOCKED_ACTIONS_part000 == {"CONTRACT_DEPLOY", "TRANSFER_OUTSIDE_ALLOWLIST"}

\* Array.prototype.filter(a => a !== action)
RECURSIVE FilterAction(_, _)
FilterAction(actions, action) ==
  IF actions = <<>> THEN <<>>
  ELSE IF Head(actions) # action
       THEN <<Head(actions)>> \o FilterAction(Tail(actions), action)
       ELSE FilterAction(Tail(actions), action)

\* toggleBlockedAction: the policies after it
toggleBlockedAction(prev, policyId, action) ==
  [i \in DOMAIN prev |->
     IF prev[i].id # policyId THEN prev[i]
     ELSE [prev[i] EXCEPT !.blockedActions =
             IF includes(@, action) THEN FilterAction(@, action) ELSE Append(@, action)]]

\* the parent is signed in and looks at a policy
OnPolicyScreen(screen) ==
  /\ phase = screen
  /\ IsSome(userProfile)
  /\ Get(userProfile).role = "parent"
  /\ IsSome(parentCurrentPolicy)

\* a variant of the handler without the guard on required actions
handleToggleBlockedAction_unguarded(action) ==
  /\ OnPolicyScreen("screen")
  /\ LET current == Get(parentCurrentPolicy)
     IN /\ policies' = toggleBlockedAction(policies, current.id, action)
        /\ handled' = Handled("handleToggleBlockedAction", current.id, action, policies)
  /\ UNCHANGED <<compilerVars, serverVars, lastCall, linkedAccounts, userProfile,
                 currentPolicy, precheck>>

handleToggleBlockedAction(action) ==
  /\ OnPolicyScreen("screen")
  /\ LET current == Get(parentCurrentPolicy)
     IN /\ policies' =
             IF action \in REQUIRED_BLOCKED_ACTIONS /\ includes(current.blockedActions, action)
             THEN policies
             ELSE toggleBlockedAction(policies, current.id, action)
        /\ handled' = Handled("handleToggleBlockedAction", current.id, action, policies)
  /\ UNCHANGED <<compilerVars, serverVars, lastCall, linkedAccounts, userProfile,
                 currentPolicy, precheck>>

\* the handler of the earlier policy screen
handleToggleBlockedAction_part000(action) ==
  /\ OnPolicyScreen("screen_part000")
  /\ LET current == Get(parentCurrentPolicy)
     IN /\ policies' =
             IF action \in REQUIRED_BLOCKED_ACTIONS_part000
                  /\ includes(current.blockedActions, action)
             THEN policies
             ELSE toggleBlockedAction(policies, current.id, action)
        /\ handled' = Handled("handleToggleBlockedAction_part000", current.id, action, policies)
  /\ UNCHANGED <<compilerVars, serverVars, lastCall, linkedAccounts, userProfile,
                 currentPolicy, precheck>>

\* updatePolicy(policyId, { childWalletAddress })
WithChild(policyId, childWalletAddress) ==
  [i \in DOMAIN policies |->
     IF policies[i].id = policyId
     THEN [policies[i] EXCEPT !.childWalletAddress = Some(childWalletAddress)]
     ELSE policies[i]]

\* the wallet address of the profile, undefined without a profile
ProfileAddress == IF IsSome(userProfile) THEN Some(Get(userProfile).walletAddress) ELSE None

\* the profile with one more child
WithChildAddress(childWalletAddress) ==
  IF ~IsSome(userProfile) THEN userProfile
  ELSE Some([Get(userProfile) EXCEPT !.childWalletAddresses =
               Some((IF IsSome(@) THEN Get(@) ELSE <<>>) \o <<childWalletAddress>>)])

\* a variant that keys the link by the address as given
linkChildToPolicy_rawKey(policyId, childWalletAddress) ==
  /\ policies' = WithChild(policyId, childWalletAddress)
  /\ linkedAccounts' =
       MapSet(linkedAccounts, childWalletAddress,
              [policyId |-> policyId, parentWalletAddress |-> ProfileAddress])
  /\ userProfile' = WithChildAddress(childWalletAddress)

\* linkChildToPolicy: what it does to the policies, the link table and the profile
linkChildToPolicy(policyId, childWalletAddress) ==
  /\ policies' = WithChild(policyId, childWalletAddress)
  /\ linkedAccounts' =
       MapSet(linkedAccounts, toLowerCase(childWalletAddress),
              [policyId |-> policyId, parentWalletAddress |-> ProfileAddress])
  /\ userProfile' = WithChildAddress(childWalletAddress)

\* the number of children a run links
MaxChildren == 2

\* the children the profile lists
ProfileChildren ==
  IF IsSome(userProfile) /\ IsSome(Get(userProfile).childWalletAddresses)
  THEN Get(Get(userProfile).childWalletAddresses) ELSE <<>>

\* the parent is signed in
ParentSession == IsSome(userProfile) /\ Get(userProfile).role = "parent"

\* a call of linkChildToPolicy of the context
LinkChild(policyId, childWalletAddress) ==
  /\ ParentSession
  /\ Len(ProfileChildren) < MaxChildren
  /\ linkChildToPolicy(policyId, childWalletAddress)
  /\ handled' = Handled("linkChildToPolicy", policyId, childWalletAddress, policies)
  /\ UNCHANGED <<compilerVars, serverVars, lastCall, currentPolicy, precheck>>

\* the parent asks the server for a child wallet and links the one it returns;
\* the screen offers the button while the policy has no child
handleCreateChildWallet(devMode, sdk, walletAddress) ==
  /\ OnPolicyScreen("screen")
  /\ ~IsSome(Get(parentCurrentPolicy).childWalletAddress)
  /\ LET current == Get(parentCurrentPolicy)
         body == CreateWalletRequest(Some(current.parentWalletAddress), Some(TRUE),
                                     current.usdLimit, None, devMode)
         result == createWalletHandler(body, createWalletPolicies, env, now, sdk, walletAddress)
     IN /\ response' = Some(result.response)
        /\ createWalletPolicies' = result.map
        /\ handled' = Handled("handleCreateChildWallet", current.id, "", policies)
        /\ IF result.response.success /\ Truthy(result.response.walletAddress)
           THEN linkChildToPolicy(current.id, Get(result.response.walletAddress))
           ELSE UNCHANGED <<policies, linkedAccounts, userProfile>>
  /\ UNCHANGED <<compilerVars, signPolicies, env, lastCall, currentPolicy, precheck>>

loadChildPolicy(childWalletAddress) ==
  /\ LET key == toLowerCase(childWalletAddress)
         found == IF key \in DOMAIN linkedAccounts
                  THEN {i \in DOMAIN policies : policies[i].id = linkedAccounts[key].policyId}
                  ELSE {}
     IN IF found # {}
        THEN /\ currentPolicy' = Some(policies[Min(found)])
             /\ userProfile' =
                  Some(UserProfile(childWalletAddress, "child",
                                   Some(policies[Min(found)].id),
                                   linkedAccounts[key].parentWalletAddress, None))
        ELSE UNCHANGED <<currentPolicy, userProfile>>
  /\ handled' = Handled("loadChildPolicy", "", childWalletAddress, policies)
  /\ UNCHANGED <<compilerVars, serverVars, contextVars, linkedAccounts, precheck>>

\* Array.prototype.filter(policy => policy.id !== policyId)
RECURSIVE FilterPolicy(_, _)
FilterPolicy(prev, policyId) ==
  IF prev = <<>> THEN <<>>
  ELSE IF Head(prev).id # policyId
       THEN <<Head(prev)>> \o FilterPolicy(Tail(prev), policyId)
       ELSE FilterPolicy(Tail(prev), policyId)

deletePolicy(policyId) ==
  /\ ParentSession
  /\ policies' = FilterPolicy(policies, policyId)
  /\ handled' = Handled("deletePolicy", policyId, "", policies)
  /\ UNCHANGED <<compilerVars, serverVars, lastCall, linkedAccounts, userProfile,
                 currentPolicy, precheck>>

\* updatePolicy(policyId, { usdLimit })
updatePolicy_usdLimit(policyId, newUsdLimit) ==
  /\ ParentSession
  /\ policies' =
       [i \in DOMAIN policies |->
          IF policies[i].id = policyId
          THEN [policies[i] EXCEPT !.usdLimit = newUsdLimit]
          ELSE policies[i]]
  /\ handled' = Handled("updatePolicy", policyId, "", policies)
  /\ UNCHANGED <<compilerVars, serverVars, lastCall, linkedAccounts, userProfile,
                 currentPolicy, precheck>>

(***************************************************************************)
(* Specification SpecDashboard: a parent creates a policy, edits its       *)
(* blocked actions, links children; a child signs in                       *)
(***************************************************************************)
InitDashboard ==
  /\ phase \in {"screen", "screen_part000"}
  /\ policy = EmptyPolicy
  /\ tx = None
  /\ verdicts = None
  /\ options = None
  /\ compiled = None
  /\ recompiled = None
  /\ compiledVerdicts = None
  /\ now = 0
  /\ usdLimits = None
  /\ displayed = None
  /\ policies = <<>>
  /\ lastCall = NoCall
  /\ linkedAccounts = EmptyMap
  /\ userProfile = Some(ParentProfile)
  /\ currentPolicy = None
  /\ handled = NoHandler
  /\ precheck = None
  /\ createWalletPolicies = EmptyMap
  /\ signPolicies = EmptyMap
  /\ env = [STRIPE_SECRET_KEY |-> FALSE, PARA_SECRET_KEY |-> TRUE]
  /\ response = None

\* the actions the toggles of the two screens are drawn from
ToggledActions == {"DEPLOY_CONTRACT", "SMART_CONTRACT", "SIGN_MESSAGE"}
ToggledActions_part000 == {"CONTRACT_DEPLOY", "APPROVE_TOKEN_SPEND", "NFT_TRANSFER"}

NextDashboard ==
  \/ \E limit \in {None, Some(MaxUsd)}, addresses \in {None, Some(<<AddrLower>>)} :
       phase = "screen" /\ handleCreatePolicy(limit, addresses, TRUE)
  \/ /\ phase = "screen_part000"
     /\ ParentSession
     /\ ~IsSome(Get(userProfile).policyId)
     /\ createPolicy("base-only", None)
  \/ \E action \in ToggledActions : handleToggleBlockedAction(action)
  \/ \E action \in ToggledActions_part000 : handleToggleBlockedAction_part000(action)
  \/ \E i \in DOMAIN PolicyIds, child \in {AddrMixed, AddrOther} : LinkChild(PolicyIds[i], child)
  \/ \E devMode \in BOOLEAN, sdk \in SdkOutcomes, walletAddress \in {None, Some(AddrMixed)} :
       handleCreateChildWallet(devMode, sdk, walletAddress)
  \/ \E child \in {AddrLower, AddrMixed, AddrOther} : loadChildPolicy(child)
  \/ \E i \in DOMAIN PolicyIds : deletePolicy(PolicyIds[i])
  \/ \E i \in DOMAIN PolicyIds : updatePolicy_usdLimit(PolicyIds[i], Some(MaxUsd))

SpecDashboard == InitDashboard /\ [][NextDashboard]_vars

(***************************************************************************)
(* Properties of the policy screen and the link table (SpecDashboard)      *)
(***************************************************************************)
\* the policy with this id among these policies; the caller knows there is one
PolicyWithId(list, policyId) ==
  list[Min({i \in DOMAIN list : list[i].id = policyId})]

HasPolicy(list, policyId) == \E i \in DOMAIN list : list[i].id = policyId

\* the last call was loadChildPolicy for an address whose link named a stored policy
ChildResolved ==
  /\ handled.op = "loadChildPolicy"
  /\ toLowerCase(handled.argument) \in DOMAIN linkedAccounts
  /\ HasPolicy(handled.before, linkedAccounts[toLowerCase(handled.argument)].policyId)

\* C22: every key of the link table is lowercase in every reachable state; and
\* loadChildPolicy(A'), for any letter case A' of a linked child address, resolves
\* the linked policy and sets the profile to role child with the address of the
\* parent who made the link.
C22_LinksKeyedByLowercaseAddress ==
  /\ \A k \in DOMAIN linkedAccounts : k = toLowerCase(k)
  /\ ChildResolved =>
       LET link == linkedAccounts[toLowerCase(handled.argument)]
           linked == PolicyWithId(handled.before, link.policyId)
       IN /\ currentPolicy = Some(linked)
          /\ link.parentWalletAddress = Some(ParentAddress)
          /\ userProfile = Some(UserProfile(handled.argument, "child", Some(linked.id),
                                            Some(ParentAddress), None))

\* a child linked under one letter case signed in under another
C22_Witness ==
  /\ ChildResolved
  /\ handled.argument = AddrLower
  /\ IsSome(currentPolicy)
  /\ Get(currentPolicy).childWalletAddress = Some(AddrMixed)
  /\ Get(userProfile).role = "child"

\* C23: every policy created by the parent onboarding has both DEPLOY_CONTRACT and
\* SMART_CONTRACT in its blockedActions, and keeps both through every call of the
\* policy screen's toggle handler.
C23_RequiredActionsStayBlocked ==
  phase = "screen" =>
    \A i \in DOMAIN policies :
      /\ includes(policies[i].blockedActions, "DEPLOY_CONTRACT")
      /\ includes(policies[i].blockedActions, "SMART_CONTRACT")

\* the policies after a toggle differ from those before in the blockedActions of
\* the target only, where the action has changed sides and no other has
ToggledOnly(before, after, policyId, action) ==
  /\ DOMAIN after = DOMAIN before
  /\ \A i \in DOMAIN before :
       IF before[i].id # policyId THEN after[i] = before[i]
       ELSE /\ [after[i] EXCEPT !.blockedActions = before[i].blockedActions] = before[i]
            /\ includes(after[i].blockedActions, action)
                 <=> ~includes(before[i].blockedActions, action)
            /\ \A a \in Range(before[i].blockedActions) \cup Range(after[i].blockedActions) :
                 a # action =>
                   (includes(after[i].blockedActions, a) <=> includes(before[i].blockedActions, a))

\* toggling the action twice gives back the blockedActions of every policy, as sets
TwiceRestores(before, policyId, action) ==
  LET twice == toggleBlockedAction(toggleBlockedAction(before, policyId, action),
                                   policyId, action)
  IN \A i \in DOMAIN before :
       Range(twice[i].blockedActions) = Range(before[i].blockedActions)

\* the last call was a toggle handler with this name and this required set
ToggleGuard(op, required) ==
  handled.op = op =>
    LET target == PolicyWithId(handled.before, handled.policyId)
    IN IF handled.argument \in required /\ includes(target.blockedActions, handled.argument)
       THEN policies = handled.before
       ELSE /\ ToggledOnly(handled.before, policies, handled.policyId, handled.argument)
            /\ TwiceRestores(handled.before, handled.policyId, handled.argument)

\* C25: for a required action that is blocked, handleToggleBlockedAction leaves the
\* policies as they were; for any other action toggleBlockedAction adds it when
\* absent and removes it when present, changes no other policy and no other
\* field, and toggling the same action twice restores the blockedActions set.
C25_ToggleGuard ==
  /\ ToggleGuard("handleToggleBlockedAction", REQUIRED_BLOCKED_ACTIONS)
  /\ ToggleGuard("handleToggleBlockedAction_part000", REQUIRED_BLOCKED_ACTIONS_part000)

\* the handler was asked to unblock a required action and left the policies alone
C25_Witness ==
  /\ handled.op = "handleToggleBlockedAction"
  /\ handled.argument = "DEPLOY_CONTRACT"
  /\ includes(PolicyWithId(handled.before, handled.policyId).blockedActions, "DEPLOY_CONTRACT")
  /\ policies = handled.before

\* the last call created a child wallet on the server and linked it
ChildWalletCreated ==
  /\ handled.op = "handleCreateChildWallet"
  /\ Created
  /\ Get(response).success
  /\ HasPolicy(policies, handled.policyId)
  /\ IsSome(PolicyWithId(policies, handled.policyId).paraPolicyJSON)

C29_LinksAgreeWithPolicies ==
  \A c \in DOMAIN linkedAccounts :
    \E i \in DOMAIN policies :
      /\ policies[i].id = linkedAccounts[c].policyId
      /\ IsSome(policies[i].childWalletAddress)
      /\ toLowerCase(Get(policies[i].childWalletAddress)) = c

====
